---- MODULE Spec2Model ----
(***************************************************************************)
(* Scope teardown, userdata borrow discipline and the MultiValue pool of   *)
(* mlua (src/src/scope.rs, src/src/value.rs).                              *)
(*                                                                         *)
(* ScopeSpec: one Scope of one Lua state.  The host registers functions    *)
(* and userdata with the Scope, the guest calls them (possibly nested,     *)
(* from inside a running callback), the host takes owned userdata back,    *)
(* and finally the Scope is dropped: first every destructor runs, then     *)
(* every recovered payload is dropped.                                     *)
(*                                                                         *)
(* PoolSpec: the MultiValue containers handed out by new_or_pooled and     *)
(* given back by return_to_pool.                                           *)
(***************************************************************************)
EXTENDS Integers, Sequences, FiniteSets, TLC

\* Bounds of the model.
MaxDepth == 2       \* guest calls nested inside each other
MaxCount == 2       \* mutating method calls that run to change a host counter

VARIABLES
    plan,           \* what the host block has still to register
    objs,           \* guest objects, in creation order (index = identity)
    destructors,    \* Scope::destructors: the registered guest handles
    to_drop,        \* Drop for Scope: payloads recovered by the destructors
    scope,          \* "alive", "dropping" (Drop::drop running) or "done"
    stack,          \* host callbacks now executing, innermost last
    tguard,         \* RefCell of the mutating method of the 'static type
    last,           \* the last operation and what it returned
    pool,           \* the multivalue pool of the Lua state
    held,           \* MultiValue containers now owned by callers
    obtained        \* the container the last new_or_pooled returned

scopeVars == <<plan, objs, destructors, to_drop, scope, stack, tguard, last>>
poolVars == <<pool, held, obtained>>
vars == <<plan, objs, destructors, to_drop, scope, stack, tguard, last, pool, held, obtained>>

----------------------------------------------------------------------------
\* Guest objects.

\* A guest object as the Lua state holds it.
\*   kind     "function" (a callback with its CallbackUpvalue) or "userdata"
\*   by       the Scope method that made it
\*   mkind    the NonStaticMethod a callback wraps
\*   owner    ud_ptr captured by a wrapped method, 0 for none
\*   link     "live": the payload is attached; "destructed": taken away;
\*            "none": a userdata that has no metatable yet
\*   payload  where the host payload is: "cell", "to_drop", "dropped", "host"
\*   borrow   RefCell flag of the UserDataCell: -1 exclusive, n >= 0 shared
\*   guard    RefCell of a FnMut closure is mutably borrowed
\*   counter  the host data
\*   rel      how many times take_userdata extracted the payload
Obj(kind, by, mkind, owner, link) ==
    [kind |-> kind, by |-> by, mkind |-> mkind, owner |-> owner,
     link |-> link, payload |-> "cell", borrow |-> 0, guard |-> FALSE,
     counter |-> 0, rel |-> 0]

Ids == 1..Len(objs)
UserDataIds == {i \in Ids : objs[i].kind = "userdata"}
FunctionIds == {i \in Ids : objs[i].kind = "function"}

\* The resources registered with the Scope until now.
Registered == {i \in Ids : objs[i].link # "none"}

\* Live: the guest handle still reaches the host payload.
Live(i) == objs[i].link = "live"

DestroyedErrors == {"UserDataDestructed", "CallbackDestructed"}

NoLast == [op |-> "init", f |-> 0, res |-> "Ok", val |-> 0]

----------------------------------------------------------------------------
\* Registration with the Scope.

\* One registration of the host block: the Scope method it calls and, for
\* create_nonstatic_userdata, the methods T::add_methods registers, in the
\* order they are wrapped (meta methods first). fail = k > 0: the first k
\* are meta methods and MetaMethod::validate rejects the name of the k-th.
Item(by, methods) == [by |-> by, methods |-> methods, fail |-> 0]
Failing(item, k) == [item EXCEPT !.fail = k]

\* What add_async_method, add_async_function, add_async_meta_method and
\* add_async_meta_function are asked to register.
AsyncKinds == {"AsyncMethod", "AsyncFunction", "AsyncMetaMethod", "AsyncMetaFunction"}

\* The host blocks explored: what each registers with its Scope, in order.
\* A block may end (and its Scope be dropped) after any prefix.
Programs ==
    { << Item("create_function", <<>>), Item("create_function_mut", <<>>),
         Item("create_userdata", <<>>), Item("create_userdata_ref_mut", <<>>) >>,
      << Item("create_userdata_ref", <<>>), Item("create_any_userdata_ref_mut", <<>>),
         Item("create_any_userdata_ref", <<>>) >>,
      << Item("create_nonstatic_userdata", <<"MethodMut", "MethodMut">>),
         Item("create_userdata", <<>>) >>,
      << Item("create_nonstatic_userdata", <<"Method", "MethodMut">>),
         Item("create_function_mut", <<>>) >>,
      << Item("create_nonstatic_userdata", <<"Function", "FunctionMut">>),
         Item("create_nonstatic_userdata", <<"MethodMut">>) >>,
      << Failing(Item("create_nonstatic_userdata", <<"MethodMut", "Method">>), 1),
         Item("create_userdata", <<>>) >>,
      << Item("create_function", <<>>),
         Failing(Item("create_nonstatic_userdata", <<"Method", "MethodMut">>), 2) >>,
      << Item("create_nonstatic_userdata", <<"Method", "AsyncMethod">>),
         Item("create_function", <<>>) >>,
      << Item("create_function_mut", <<>>),
         Item("create_nonstatic_userdata", <<"AsyncMetaFunction", "MethodMut">>) >> }

SealedBy ==
    {"create_userdata", "create_userdata_ref", "create_userdata_ref_mut",
     "create_any_userdata_ref", "create_any_userdata_ref_mut"}

\* create_userdata_ref_mut building its cell with UserDataCell::new_ref.
VariantOf_ref(by) ==
    CASE by \in {"create_userdata", "create_nonstatic_userdata"} -> "owned"
      [] OTHER -> "ref"

\* What the UserDataCell made by each method wraps: UserDataCell::new,
\* new_ref or new_ref_mut.
VariantOf(by) ==
    CASE by \in {"create_userdata", "create_nonstatic_userdata"} -> "owned"
      [] by \in {"create_userdata_ref", "create_any_userdata_ref"} -> "ref"
      [] OTHER -> "ref_mut"

\* A registration in progress: the guest objects and the registry, and
\* what the registration returns.
Reg(os, ds) == [objs |-> os, destructors |-> ds, res |-> "Ok"]

\* A create_callback that registers no destructor.
create_callback_unregistered(st, by, mkind, owner) ==
    Reg(Append(st.objs, Obj("function", by, mkind, owner, "live")), st.destructors)

\* Scope::create_callback: a new callback, registered with its destructor.
create_callback(st, by, mkind, owner) ==
    Reg(Append(st.objs, Obj("function", by, mkind, owner, "live")),
        Append(st.destructors, Len(st.objs) + 1))

\* Scope::seal_userdata: registers the destructor of a userdata made by
\* Lua::make_userdata / Lua::make_any_userdata.
seal_userdata(st, by) ==
    Reg(Append(st.objs, Obj("userdata", by, "none", 0, "live")),
        Append(st.destructors, Len(st.objs) + 1))

\* The loops of create_nonstatic_userdata over the collected methods: each
\* is wrapped by wrap_method, which registers one callback bound to ud_ptr.
RECURSIVE wrap_methods(_, _, _)
wrap_methods(st, ml, ud_ptr) ==
    IF ml = <<>> THEN st
    ELSE wrap_methods(create_callback(st, "wrap_method", Head(ml), ud_ptr),
                      Tail(ml), ud_ptr)

\* A collector that stores an asynchronous method like any other.
RECURSIVE add_methods_stores(_, _)
add_methods_stores(collected, regs) ==
    IF regs = <<>> THEN [res |-> "Ok", methods |-> collected]
    ELSE add_methods_stores(Append(collected, Head(regs)), Tail(regs))

\* T::add_methods on NonStaticUserDataMethods: add_method, add_method_mut,
\* add_function, add_function_mut and their meta variants push the method;
\* the add_async_* routines panic and store nothing.
RECURSIVE add_methods(_, _)
add_methods(collected, regs) ==
    IF regs = <<>> THEN [res |-> "Ok", methods |-> collected]
    ELSE IF Head(regs) \in AsyncKinds THEN [res |-> "panic", methods |-> collected]
    ELSE add_methods(Append(collected, Head(regs)), Tail(regs))

\* A create_nonstatic_userdata that registers the destructor of the
\* userdata before it wraps the methods.
create_nonstatic_userdata_early(st, item) ==
    LET ud_ptr == Len(st.objs) + 1
        ud_methods == add_methods(<<>>, item.methods)
        ml == ud_methods.methods
        raw == Reg(Append(st.objs, Obj("userdata", "create_nonstatic_userdata",
                                       "none", 0, "none")),
                   Append(st.destructors, ud_ptr))
    IN  IF ud_methods.res # "Ok" THEN [st EXCEPT !.res = ud_methods.res]
        ELSE IF item.fail > 0
        THEN [wrap_methods(raw, SubSeq(ml, 1, item.fail), ud_ptr)
                 EXCEPT !.res = "MetaMethodRestricted"]
        ELSE LET wrapped == wrap_methods(raw, ml, ud_ptr)
             IN  Reg([wrapped.objs EXCEPT ![ud_ptr].link = "live"], wrapped.destructors)

\* Scope::create_nonstatic_userdata: collects the methods of T, allocates
\* the userdata, wraps the methods (a name MetaMethod::validate rejects
\* returns the error, after the method was wrapped), then writes the data,
\* attaches the metatable and registers the destructor of the userdata.
create_nonstatic_userdata(st, item) ==
    LET ud_ptr == Len(st.objs) + 1
        ud_methods == add_methods(<<>>, item.methods)
        ml == ud_methods.methods
        raw == Reg(Append(st.objs, Obj("userdata", "create_nonstatic_userdata",
                                       "none", 0, "none")),
                   st.destructors)
    IN  IF ud_methods.res # "Ok" THEN [st EXCEPT !.res = ud_methods.res]
        ELSE IF item.fail > 0
        THEN [wrap_methods(raw, SubSeq(ml, 1, item.fail), ud_ptr)
                 EXCEPT !.res = "MetaMethodRestricted"]
        ELSE LET wrapped == wrap_methods(raw, ml, ud_ptr)
             IN  Reg([wrapped.objs EXCEPT ![ud_ptr].link = "live"],
                     Append(wrapped.destructors, ud_ptr))

\* The registration returns: f is the handle it made (the first object it
\* created, none after a panic); a panic ends the host block.
Registering(st) ==
    /\ objs' = st.objs
    /\ destructors' = st.destructors
    /\ plan' = IF st.res = "panic" THEN <<>> ELSE Tail(plan)
    /\ last' = [NoLast EXCEPT !.op = Head(plan).by, !.res = st.res,
                              !.f = IF st.res = "panic" THEN 0 ELSE Len(objs) + 1]
    /\ UNCHANGED <<to_drop, scope, stack, tguard, pool, held, obtained>>

\* The host registers while the Scope is alive, also from a running callback.
CanCreate(bys) ==
    /\ scope = "alive"
    /\ plan # <<>>
    /\ Head(plan).by \in bys

CreateFunction ==
    /\ CanCreate({"create_function"})
    /\ Registering(create_callback(Reg(objs, destructors), "create_function",
                                   "Function", 0))

CreateFunctionMut ==
    /\ CanCreate({"create_function_mut"})
    /\ Registering(create_callback(Reg(objs, destructors), "create_function_mut",
                                   "FunctionMut", 0))

\* create_userdata, create_userdata_ref, create_userdata_ref_mut,
\* create_any_userdata_ref, create_any_userdata_ref_mut.
CreateUserData ==
    /\ CanCreate(SealedBy)
    /\ Registering(seal_userdata(Reg(objs, destructors), Head(plan).by))

CreateNonstaticUserData ==
    /\ CanCreate({"create_nonstatic_userdata"})
    /\ Registering(create_nonstatic_userdata(Reg(objs, destructors), Head(plan)))

----------------------------------------------------------------------------
\* Guest calls.

\* What the Lua state answers for a userdata handle: its metatable is the
\* one it was created with, the metatable of destructed userdata, or none.
push_userdata_ref(u) ==
    CASE objs[u].link = "live" -> "Ok"
      [] objs[u].link = "destructed" -> "UserDataDestructed"
      [] OTHER -> "UserDataTypeMismatch"

\* UserDataCell::try_borrow: refused while the cell is borrowed exclusively.
try_borrow(u) ==
    IF objs[u].borrow >= 0 THEN "Ok" ELSE "UserDataBorrowError"

\* UserDataCell::try_borrow_mut: refused while the cell is borrowed at all,
\* and for a cell that wraps a shared reference.
try_borrow_mut(u) ==
    IF objs[u].borrow = 0 /\ VariantOf(objs[u].by) # "ref"
    THEN "Ok" ELSE "UserDataBorrowMutError"

\* The outcome of entering a callback: an error, or the guards the running
\* call holds (mode: its borrow of the cell; guarded: its closure's RefCell).
Fail(err) == [res |-> err, mode |-> "none", guarded |-> FALSE]
Enter(mode, guarded) == [res |-> "Ok", mode |-> mode, guarded |-> guarded]

\* A check that accepts every userdata the Lua state can push.
check_ud_type_any(f, arg) ==
    IF arg = 0 THEN "UserDataTypeMismatch"
    ELSE IF push_userdata_ref(arg) # "Ok" THEN push_userdata_ref(arg)
    ELSE "Ok"

\* check_ud_type of wrap_method.  arg: the first argument, a userdata or
\* 0 for a value that is no userdata (or no argument at all).
check_ud_type(f, arg) ==
    IF arg = 0 THEN "UserDataTypeMismatch"
    ELSE IF push_userdata_ref(arg) # "Ok" THEN push_userdata_ref(arg)
    ELSE IF arg = objs[f].owner THEN "Ok"
    ELSE "UserDataTypeMismatch"

\* NonStaticMethod::Method of wrap_method.
wrap_Method(f, arg) ==
    IF check_ud_type(f, arg) # "Ok" THEN Fail(check_ud_type(f, arg))
    ELSE IF try_borrow(arg) # "Ok" THEN Fail(try_borrow(arg))
    ELSE Enter("shared", FALSE)

\* A MethodMut wrapper that borrows the cell before it checks the closure.
wrap_MethodMut_swapped(f, arg) ==
    IF check_ud_type(f, arg) # "Ok" THEN Fail(check_ud_type(f, arg))
    ELSE IF try_borrow_mut(arg) # "Ok" THEN Fail(try_borrow_mut(arg))
    ELSE IF objs[f].guard THEN Fail("RecursiveMutCallback")
    ELSE Enter("excl", TRUE)

\* A MethodMut wrapper that takes the data without asking the cell.
wrap_MethodMut_unchecked(f, arg) ==
    IF check_ud_type(f, arg) # "Ok" THEN Fail(check_ud_type(f, arg))
    ELSE IF objs[f].guard THEN Fail("RecursiveMutCallback")
    ELSE Enter("excl", TRUE)

\* A MethodMut wrapper that keeps the RefCell of the closure borrowed when
\* the borrow of the data fails.
wrap_MethodMut_leaky(f, arg) ==
    IF check_ud_type(f, arg) # "Ok" THEN Fail(check_ud_type(f, arg))
    ELSE IF objs[f].guard THEN Fail("RecursiveMutCallback")
    ELSE IF try_borrow_mut(arg) # "Ok"
         THEN [res |-> try_borrow_mut(arg), mode |-> "none", guarded |-> TRUE]
    ELSE Enter("excl", TRUE)

\* NonStaticMethod::MethodMut of wrap_method.
wrap_MethodMut(f, arg) ==
    IF check_ud_type(f, arg) # "Ok" THEN Fail(check_ud_type(f, arg))
    ELSE IF objs[f].guard THEN Fail("RecursiveMutCallback")
    ELSE IF try_borrow_mut(arg) # "Ok" THEN Fail(try_borrow_mut(arg))
    ELSE Enter("excl", TRUE)

\* NonStaticMethod::Function of wrap_method.
wrap_Function(f) == Enter("none", FALSE)

\* NonStaticMethod::FunctionMut of wrap_method.
wrap_FunctionMut(f) ==
    IF objs[f].guard THEN Fail("RecursiveMutCallback") ELSE Enter("none", TRUE)

\* The closure Scope::create_function registers.
create_function(f) == Enter("none", FALSE)

\* A create_function_mut that calls the closure without try_borrow_mut.
create_function_mut_unguarded(f) == Enter("none", TRUE)

\* The closure Scope::create_function_mut registers.
create_function_mut(f) ==
    IF objs[f].guard THEN Fail("RecursiveMutCallback") ELSE Enter("none", TRUE)

\* The closure behind callback f, applied to the first argument arg.
closure(f, arg) ==
    CASE objs[f].mkind = "Method" -> wrap_Method(f, arg)
      [] objs[f].mkind = "MethodMut" -> wrap_MethodMut(f, arg)
      [] objs[f].mkind = "Function" /\ objs[f].owner # 0 -> wrap_Function(f)
      [] objs[f].mkind = "FunctionMut" /\ objs[f].owner # 0 -> wrap_FunctionMut(f)
      [] objs[f].mkind = "Function" -> create_function(f)
      [] OTHER -> create_function_mut(f)

\* Lua's call of a callback: the CallbackUpvalue is read from upvalue 1, and
\* a callback whose upvalue was removed fails without running anything.
call_callback(f, arg) ==
    IF objs[f].link # "live" THEN Fail("CallbackDestructed") ELSE closure(f, arg)

\* A method of the 'static userdata type called on userdata u: mut selects
\* the mutating method (add_method_mut) or the reading one (add_method).
type_method(u, mut) ==
    IF push_userdata_ref(u) # "Ok" THEN Fail(push_userdata_ref(u))
    ELSE IF objs[u].by = "create_nonstatic_userdata" THEN Fail("UserDataTypeMismatch")
    ELSE IF mut
         THEN IF tguard THEN Fail("RecursiveMutCallback")
              ELSE IF try_borrow_mut(u) # "Ok" THEN Fail(try_borrow_mut(u))
              ELSE Enter("excl", TRUE)
         ELSE IF try_borrow(u) # "Ok" THEN Fail(try_borrow(u))
              ELSE Enter("shared", FALSE)

\* Guest code runs while the Scope is alive, after it is gone, and from the
\* Drop of a payload; never while the destructors run.
GuestRuns ==
    \/ scope \in {"alive", "done"}
    \/ scope = "dropping" /\ \E i \in Ids : objs[i].payload = "dropped"

\* The mutating calls that ran until now, over all userdata.
RECURSIVE Mutations(_)
Mutations(os) ==
    IF os = <<>> THEN 0 ELSE Head(os).counter + Mutations(Tail(os))

\* The objects after a call with outcome out: the guards out leaves held
\* are taken (none when the closure returned an error: its guards are
\* dropped on the way out), and a mutating method bumps the host counter.
Entered(f, u, out) ==
    LET g == IF out.guarded /\ f # 0
             THEN [objs EXCEPT ![f].guard = TRUE] ELSE objs
    IN  CASE out.mode = "shared" -> [g EXCEPT ![u].borrow = @ + 1]
          [] out.mode = "excl" -> [g EXCEPT ![u].borrow = -1, ![u].counter = @ + 1]
          [] OTHER -> g

Frame(f, u, out) ==
    [f |-> f, ud |-> u, mode |-> out.mode, guarded |-> out.guarded,
     val |-> IF out.mode = "none" THEN 0
             ELSE IF out.mode = "excl" THEN objs[u].counter + 1
             ELSE objs[u].counter]

\* A call that ends at once with an error, or starts running the callback;
\* last keeps the first argument of the call.
Calling(f, u, arg, out, op) ==
    /\ out.mode = "excl" => Mutations(objs) < MaxCount
    /\ out.res = "Ok" => Len(stack) < MaxDepth
    /\ last' = [op |-> op, f |-> IF f = 0 THEN u ELSE f, res |-> out.res, val |-> arg]
    /\ objs' = Entered(f, u, out)
    /\ tguard' = (tguard \/ (out.guarded /\ f = 0))
    /\ stack' = IF out.res = "Ok" THEN Append(stack, Frame(f, u, out)) ELSE stack
    /\ UNCHANGED <<plan, destructors, to_drop, scope, pool, held, obtained>>

\* The handles guest and host code can reach: a userdata whose creation
\* failed, and the callbacks wrapped for it, were never handed out.
Handles ==
    {i \in Ids : /\ objs[i].link # "none"
                 /\ objs[i].owner # 0 => objs[objs[i].owner].link # "none"}

\* The guest calls callback f with first argument arg.
Call ==
    /\ GuestRuns
    /\ \E f \in FunctionIds \cap Handles : \E arg \in (UserDataIds \cap Handles) \cup {0} :
          Calling(f, arg, arg, call_callback(f, arg), "call")

\* The guest calls a method of the 'static type on userdata u.
CallTypeMethod ==
    /\ GuestRuns
    /\ \E u \in UserDataIds \cap Handles : \E mut \in BOOLEAN :
          Calling(0, u, u, type_method(u, mut), IF mut THEN "method_mut" ELSE "method")

\* The innermost running callback returns: its guards are dropped.
Return ==
    /\ stack # <<>>
    /\ LET fr == stack[Len(stack)]
           g == IF fr.guarded /\ fr.f # 0
                THEN [objs EXCEPT ![fr.f].guard = FALSE] ELSE objs
       IN  /\ objs' = CASE fr.mode = "shared" -> [g EXCEPT ![fr.ud].borrow = @ - 1]
                        [] fr.mode = "excl" -> [g EXCEPT ![fr.ud].borrow = 0]
                        [] OTHER -> g
           /\ tguard' = (tguard /\ ~(fr.guarded /\ fr.f = 0))
           /\ last' = [op |-> "return", f |-> IF fr.f = 0 THEN fr.ud ELSE fr.f,
                       res |-> "Ok", val |-> fr.val]
    /\ stack' = SubSeq(stack, 1, Len(stack) - 1)
    /\ UNCHANGED <<plan, destructors, to_drop, scope, pool, held, obtained>>

----------------------------------------------------------------------------
\* Host access to a userdata handle, and explicit release.

\* AnyUserData::borrow / borrow_mut on a handle: the guard is dropped again
\* before the next operation.
any_borrow(u, mut) ==
    IF push_userdata_ref(u) # "Ok" THEN push_userdata_ref(u)
    ELSE IF objs[u].by = "create_nonstatic_userdata" THEN "UserDataTypeMismatch"
    ELSE IF mut THEN try_borrow_mut(u)
    ELSE try_borrow(u)

\* util::take_userdata: the payload leaves the userdata (or the upvalue),
\* which gets the metatable of destructed userdata; where: its new place.
take_userdata(os, i, where) ==
    [os EXCEPT ![i].link = "destructed", ![i].payload = where, ![i].rel = @ + 1]

HostBorrow ==
    /\ GuestRuns
    /\ \E u \in UserDataIds \cap Handles : \E mut \in BOOLEAN :
          last' = [op |-> IF mut THEN "borrow_mut" ELSE "borrow", f |-> u,
                   res |-> any_borrow(u, mut), val |-> 0]
    /\ UNCHANGED <<plan, objs, destructors, to_drop, scope, stack, tguard, pool, held, obtained>>

\* AnyUserData::take on an owned cell: needs the exclusive borrow, then
\* hands the payload to the host.
Take ==
    /\ GuestRuns
    /\ \E u \in UserDataIds :
          /\ objs[u].by = "create_userdata"
          /\ last' = [op |-> "take", f |-> u, res |-> any_borrow(u, TRUE), val |-> 0]
          /\ objs' = IF any_borrow(u, TRUE) = "Ok"
                     THEN take_userdata(objs, u, "host") ELSE objs
    /\ UNCHANGED <<plan, destructors, to_drop, scope, stack, tguard, pool, held, obtained>>

----------------------------------------------------------------------------
\* Drop for Scope.

\* A destructor without the check that the userdata is still there.
seal_destructor_unchecked(u) == <<u>>

\* A destructor that takes the payload of a userdata it cannot reach and
\* leaves the one it can reach.
seal_destructor_inverted(u) ==
    IF push_userdata_ref(u) = "Ok" THEN <<>> ELSE <<u>>

\* The destructor seal_userdata registers: the payloads it returns.
seal_destructor(u) ==
    IF push_userdata_ref(u) # "Ok" THEN <<>> ELSE <<u>>

\* The destructor create_nonstatic_userdata registers.
nonstatic_destructor(u) ==
    IF push_userdata_ref(u) # "Ok" THEN <<>> ELSE <<u>>

\* A destructor that leaves the CallbackUpvalue in upvalue 1.
callback_destructor_keeps(f) == <<>>

\* The destructor create_callback registers: it takes the CallbackUpvalue
\* and sets upvalue 1 to nil.
callback_destructor(f) == <<f>>

\* dest(r) for the registry entry of r.
dest(r) ==
    CASE objs[r].kind = "function" -> callback_destructor(r)
      [] objs[r].by = "create_nonstatic_userdata" -> nonstatic_destructor(r)
      [] OTHER -> seal_destructor(r)

\* A Drop that drops each payload as soon as its destructor returned it.
DropAllowedEager == TRUE

\* drop(to_drop) starts when collect() has drained every destructor.
DropAllowed == destructors = <<>>

\* The Scope goes out of scope: no callback of it is running any more.
StartDrop ==
    /\ scope = "alive"
    /\ stack = <<>>
    /\ scope' = "dropping"
    /\ last' = [NoLast EXCEPT !.op = "start_drop"]
    /\ UNCHANGED <<plan, objs, destructors, to_drop, stack, tguard, pool, held, obtained>>

\* drain(..).flat_map(|(r, dest)| dest(r)): the next destructor runs.
SeverNext ==
    /\ scope = "dropping"
    /\ destructors # <<>>
    /\ stack = <<>>
    /\ LET r == Head(destructors) IN
          /\ to_drop' = to_drop \o dest(r)
          /\ objs' = IF dest(r) = <<>> THEN objs
                     ELSE take_userdata(objs, r, "to_drop")
          /\ last' = [NoLast EXCEPT !.op = "sever", !.f = r,
                        !.res = IF dest(r) = <<>> THEN "skipped" ELSE "Ok"]
    /\ destructors' = Tail(destructors)
    /\ UNCHANGED <<plan, scope, stack, tguard, pool, held, obtained>>

\* drop(to_drop): the next payload is dropped.
DropNext ==
    /\ scope = "dropping"
    /\ DropAllowed
    /\ to_drop # <<>>
    /\ stack = <<>>
    /\ objs' = [objs EXCEPT ![Head(to_drop)].payload = "dropped"]
    /\ to_drop' = Tail(to_drop)
    /\ last' = [NoLast EXCEPT !.op = "drop_payload", !.f = Head(to_drop)]
    /\ UNCHANGED <<plan, destructors, scope, stack, tguard, pool, held, obtained>>

FinishDrop ==
    /\ scope = "dropping"
    /\ destructors = <<>>
    /\ to_drop = <<>>
    /\ stack = <<>>
    /\ scope' = "done"
    /\ last' = [NoLast EXCEPT !.op = "finish_drop"]
    /\ UNCHANGED <<plan, objs, destructors, to_drop, stack, tguard, pool, held, obtained>>

ScopeInit ==
    /\ plan \in Programs
    /\ objs = <<>>
    /\ destructors = <<>>
    /\ to_drop = <<>>
    /\ scope = "alive"
    /\ stack = <<>>
    /\ tguard = FALSE
    /\ last = NoLast
    /\ pool = <<>>
    /\ held = <<>>
    /\ obtained = <<>>

ScopeNext ==
    \/ CreateFunction
    \/ CreateFunctionMut
    \/ CreateUserData
    \/ CreateNonstaticUserData
    \/ Call
    \/ CallTypeMethod
    \/ Return
    \/ HostBorrow
    \/ Take
    \/ StartDrop
    \/ SeverNext
    \/ DropNext
    \/ FinishDrop

ScopeSpec == ScopeInit /\ [][ScopeNext]_vars

----------------------------------------------------------------------------
\* Properties of ScopeSpec.

AccessOps == {"call", "method", "method_mut", "borrow", "borrow_mut"}

\* Every destructor has run: phase 1 of Drop for Scope is over.
Severed == scope = "done" \/ (scope = "dropping" /\ destructors = <<>>)

\* The running callbacks that hold a borrow of mode m on the cell of u.
Holders(u, m) == {k \in 1..Len(stack) : stack[k].ud = u /\ stack[k].mode = m}

\* The running executions of callback f.
Running(f) == {k \in 1..Len(stack) : stack[k].f = f}

\* C1: at scope drop the guest-side association of every registered
\* resource is severed before the payload of any of them is dropped: while
\* a payload has been dropped by the Scope, no registered resource is Live.
C1_TwoPhase ==
    \A r2 \in Ids :
        objs[r2].payload = "dropped" => \A r1 \in Registered : ~Live(r1)

\* Phase 2 under way: one payload dropped, another recovered and waiting.
C1_Witness ==
    /\ scope = "dropping"
    /\ to_drop # <<>>
    /\ \E r \in Ids : objs[r].payload = "dropped"

\* C2: once the Scope is dropped, every borrow of a userdata it created
\* and every method call on it returns a destroyed-resource error, and no
\* call gets to run on the payload.
C2_DestroyedAfterDrop ==
    (scope # "alive" /\ GuestRuns) =>
        /\ stack = <<>>
        /\ last.op \in AccessOps => last.res \in DestroyedErrors
        /\ \A u \in UserDataIds \cap Registered : \A mut \in BOOLEAN :
              /\ any_borrow(u, mut) \in DestroyedErrors
              /\ type_method(u, mut).res \in DestroyedErrors
        /\ \A f \in FunctionIds : \A arg \in UserDataIds \cup {0} :
              objs[f].owner # 0 => call_callback(f, arg).res \in DestroyedErrors

\* After the drop a method was called on a userdata made from a reference.
C2_Witness ==
    /\ scope = "done"
    /\ last.op = "method"
    /\ last.res = "UserDataDestructed"
    /\ objs[last.f].by = "create_any_userdata_ref"

\* C3: every callback the Scope created has lost its host closure once the
\* destructors have run: a later call returns an error and runs nothing.
C3_CallbacksExpire ==
    Severed =>
        /\ \A f \in FunctionIds :
              /\ objs[f].link = "destructed"
              /\ objs[f].payload # "cell"
              /\ Running(f) = {}
              /\ \A arg \in UserDataIds \cup {0} :
                    call_callback(f, arg).res = "CallbackDestructed"
        /\ last.op = "call" => last.res = "CallbackDestructed"

\* After the drop the guest called a function made by create_function_mut.
C3_Witness ==
    /\ scope = "done"
    /\ last.op = "call"
    /\ last.res = "CallbackDestructed"
    /\ objs[last.f].by = "create_function_mut"

\* C4: a resource stays Live until its destructor runs at scope drop or it
\* is taken; either releases it, nothing else does, and Released is final.
C4_LiveReleased ==
    [][\A i \in Ids :
          /\ ~Live(i) => ~Live(i)'
          /\ (Live(i) /\ ~Live(i)') => (last'.op \in {"sever", "take"} /\ last'.f = i)
          /\ (last'.op = "sever" /\ last'.f = i) => ~Live(i)'
          /\ (last'.op = "take" /\ last'.f = i /\ last'.res = "Ok") => ~Live(i)']_vars

\* A userdata was released by take() while another resource stays Live.
C4_Witness ==
    /\ last.op = "take"
    /\ last.res = "Ok"
    /\ ~Live(last.f)
    /\ \E j \in Ids : Live(j)

\* C5: the payload of every object is extracted at most once over take()
\* and scope drop, and the destructor of a userdata that was taken returns
\* no payload and leaves the payload with the host.
C5_ReleasedOnce ==
    \A i \in Ids :
        /\ objs[i].rel <= 1
        /\ objs[i].payload = "host" => \A k \in 1..Len(to_drop) : to_drop[k] # i
        /\ (last.op = "sever" /\ last.f = i /\ last.res = "skipped") =>
              objs[i].payload = "host"

\* The destructor of a taken userdata ran and skipped it.
C5_Witness ==
    /\ last.op = "sever"
    /\ last.res = "skipped"
    /\ objs[last.f].payload = "host"
    /\ objs[last.f].rel = 1

\* C6: a cell is Unborrowed, shared by n >= 1 running calls or held by one
\* exclusive call, never an exclusive call together with another holder;
\* a request that conflicts with the holders is answered with an error.
C6_BorrowDiscipline ==
    \A u \in UserDataIds :
        LET S == Cardinality(Holders(u, "shared"))
            E == Cardinality(Holders(u, "excl"))
        IN  /\ \/ E = 0 /\ objs[u].borrow = S
               \/ E = 1 /\ S = 0 /\ objs[u].borrow = -1
            /\ E = 1 => /\ try_borrow(u) = "UserDataBorrowError"
                        /\ try_borrow_mut(u) = "UserDataBorrowMutError"
            /\ S >= 1 => try_borrow_mut(u) = "UserDataBorrowMutError"
            /\ \A f \in FunctionIds :
                  (objs[f].owner = u /\ Live(f) /\ Live(u)) =>
                      /\ (objs[f].mkind = "MethodMut" /\ E + S >= 1) =>
                            call_callback(f, u).res \in
                                {"RecursiveMutCallback", "UserDataBorrowMutError"}
                      /\ (objs[f].mkind = "Method" /\ E = 1) =>
                            call_callback(f, u).res = "UserDataBorrowError"

\* While a call holds the cell exclusively, a second borrow was refused.
C6_Witness ==
    /\ last.op = "call"
    /\ last.res \in {"UserDataBorrowError", "UserDataBorrowMutError"}
    /\ \E u \in UserDataIds : Holders(u, "excl") # {}

\* C7 as stated: calling a mutable method on O while a mutable borrow of O
\* is active fails with RecursiveMutCallback, for the running method and
\* for any other mutable method of O.
C7_Original ==
    \A f \in FunctionIds :
        (objs[f].mkind = "MethodMut" /\ Live(f) /\ Holders(objs[f].owner, "excl") # {}) =>
            call_callback(f, objs[f].owner).res = "RecursiveMutCallback"

\* C7 as amended: such a call never runs; it fails with RecursiveMutCallback
\* when it re-enters the running method, and with the borrow error of the
\* cell (UserDataBorrowMutError) when it enters another mutable method of O.
C7_ReentryFails ==
    /\ \A f \in FunctionIds :
          (objs[f].mkind = "MethodMut" /\ Live(f) /\ Holders(objs[f].owner, "excl") # {}) =>
              call_callback(f, objs[f].owner).res =
                  IF Running(f) # {} THEN "RecursiveMutCallback"
                  ELSE "UserDataBorrowMutError"
    /\ (last.op = "call" /\ objs[last.f].mkind = "MethodMut"
          /\ last.res = "RecursiveMutCallback") => Running(last.f) # {}

\* While one mutable method of O runs, another one was called and refused.
C7_Witness ==
    /\ last.op = "call"
    /\ objs[last.f].mkind = "MethodMut"
    /\ last.res = "UserDataBorrowMutError"
    /\ Running(last.f) = {}
    /\ \E k \in 1..Len(stack) :
          /\ stack[k].mode = "excl"
          /\ stack[k].ud = objs[last.f].owner
          /\ stack[k].f # last.f

\* C8: the closure of create_function_mut runs at most once at a time: a
\* call that re-enters it returns RecursiveMutCallback, and the call that
\* is running keeps running with its guard.
C8_NoReentry ==
    \A f \in FunctionIds :
        objs[f].by = "create_function_mut" =>
            /\ Cardinality(Running(f)) <= 1
            /\ objs[f].guard <=> Running(f) # {}
            /\ (Running(f) # {} /\ Live(f)) =>
                  call_callback(f, 0).res = "RecursiveMutCallback"
            /\ (last.op = "call" /\ last.f = f /\ last.res = "RecursiveMutCallback") =>
                  Running(f) # {}

\* A function made by create_function_mut was re-entered and refused.
C8_Witness ==
    /\ last.op = "call"
    /\ last.res = "RecursiveMutCallback"
    /\ objs[last.f].by = "create_function_mut"
    /\ Running(last.f) # {}

\* C9: for data registered by create_userdata_ref_mut, the borrow of a call
\* ends with the call: between calls the mutating method can be called and
\* returns the count of all calls made; after scope exit it fails with the
\* destroyed-resource error.
C9_SequentialCalls ==
    \A u \in UserDataIds :
        objs[u].by = "create_userdata_ref_mut" =>
            /\ (stack = <<>> /\ Live(u)) =>
                  /\ objs[u].borrow = 0
                  /\ type_method(u, TRUE).res = "Ok"
            /\ (last.op = "return" /\ last.f = u) => last.val = objs[u].counter
            /\ (last.op = "method_mut" /\ last.f = u /\ last.res = "Ok") =>
                  /\ stack # <<>>
                  /\ stack[Len(stack)].val = objs[u].counter
            /\ scope = "done" => type_method(u, TRUE).res = "UserDataDestructed"

\* The second of two calls in sequence returned 2.
C9_Witness ==
    /\ scope = "alive"
    /\ last.op = "return"
    /\ last.val = MaxCount
    /\ stack = <<>>
    /\ objs[last.f].by = "create_userdata_ref_mut"

\* A step of the guest calling a method wrapper (Method or MethodMut of
\* wrap_method) that still has its closure.
WrapperCalled ==
    /\ last'.op = "call"
    /\ objs[last'.f].mkind \in {"Method", "MethodMut"}
    /\ Live(last'.f)

\* C23 as stated: a method wrapper of U called with anything but U returns
\* UserDataTypeMismatch.
C23_Original ==
    [][ (WrapperCalled /\ last'.val # objs[last'.f].owner) =>
            last'.res = "UserDataTypeMismatch"
      ]_vars

\* C23: a method wrapper of the non-static userdata U runs the host method
\* only when its first argument is U; called with another userdata, with a
\* value that is no userdata or with no argument it returns an error and
\* leaves every object as it was: UserDataTypeMismatch, or UserDataDestructed
\* when the argument is a userdata that has been destructed.
C23_TypeIdentity ==
    [][ WrapperCalled =>
            LET U == objs[last'.f].owner
                arg == last'.val
            IN  /\ last'.res = "Ok" =>
                      /\ arg = U
                      /\ stack'[Len(stack')].ud = U
                /\ arg # U =>
                      /\ last'.res =
                            IF arg # 0 /\ objs[arg].link = "destructed"
                            THEN "UserDataDestructed" ELSE "UserDataTypeMismatch"
                      /\ UNCHANGED <<objs, stack, tguard>>
      ]_vars

\* A method of U was called on another userdata, which the host had taken.
C23_Witness ==
    /\ last.op = "call"
    /\ objs[last.f].mkind = "MethodMut"
    /\ Live(last.f)
    /\ last.val # 0
    /\ last.val # objs[last.f].owner
    /\ objs[last.val].payload = "host"
    /\ last.res = "UserDataDestructed"
    /\ objs[objs[last.f].owner].counter = 0

\* The next registration of the host block asks for an asynchronous method.
AsksAsync ==
    /\ plan' # plan
    /\ Head(plan).by = "create_nonstatic_userdata"
    /\ \E k \in 1..Len(Head(plan).methods) : Head(plan).methods[k] \in AsyncKinds

\* C24: no callback of the Scope wraps an asynchronous method, function,
\* meta method or meta function: a registration that asks for one panics in
\* T::add_methods, before anything is created or registered.
C24_AsyncRefused ==
    [][ /\ \A i \in 1..Len(objs') : objs'[i].mkind \notin AsyncKinds
        /\ AsksAsync =>
              /\ last'.res = "panic"
              /\ UNCHANGED <<objs, destructors>>
      ]_vars

\* create_nonstatic_userdata panicked on an asynchronous meta function; the
\* function registered before it is all the Scope has.
C24_Witness ==
    /\ last.op = "create_nonstatic_userdata"
    /\ last.res = "panic"
    /\ Len(objs) = 1
    /\ destructors = <<1>>
    /\ plan = <<>>

\* How many entries of the registry ds are for the handle h.
Entries(ds, h) == Cardinality({k \in 1..Len(ds) : ds[k] = h})

\* C27: Drop for Scope invokes the destructor of each pair of the registry
\* once, from the first registered to the last, and leaves the registry
\* empty; a create_* call that succeeds adds pairs at the end of the
\* registry, exactly one of them for the handle it returns, and nothing
\* else changes the registry.
C27_RegistryDrained ==
    [][ /\ last'.op = "sever" =>
              /\ destructors # <<>>
              /\ last'.f = Head(destructors)
              /\ destructors' = Tail(destructors)
        /\ (destructors' # destructors /\ last'.op # "sever") =>
              /\ scope = "alive"
              /\ plan' # plan
              /\ Len(destructors') > Len(destructors)
              /\ SubSeq(destructors', 1, Len(destructors)) = destructors
        /\ (plan' # plan /\ last'.res = "Ok") =>
              /\ Entries(destructors, last'.f) = 0
              /\ Entries(destructors', last'.f) = 1
        /\ \A i \in 1..Len(objs') : Entries(destructors', i) <= 1
        /\ scope' = "done" => destructors' = <<>>
        /\ (scope = "alive" /\ scope' = "dropping") =>
              \A i \in Handles : Entries(destructors, i) = 1
      ]_vars

\* The last of four destructors ran, after the other three.
C27_Witness ==
    /\ last.op = "sever"
    /\ last.f = 4
    /\ destructors = <<>>
    /\ Len(objs) = 4
    /\ \A i \in Ids : ~Live(i)

\* The handles from a + 1 to a + n, in order.
Run(a, n) == [k \in 1..n |-> a + k]

\* C28: a create_nonstatic_userdata that returns an error registers no
\* destructor for the userdata, and the callbacks it has wrapped stay in
\* the registry, with their closures until the Scope is dropped; one that
\* succeeds adds one entry for each wrapped method and then one for the
\* userdata. After the drop no callback has its closure.
C28_PartialFailure ==
    [][ /\ (plan' # plan /\ Head(plan).by = "create_nonstatic_userdata") =>
              LET ud == Len(objs) + 1
                  item == Head(plan)
              IN  CASE last'.res = "Ok" ->
                         /\ destructors' =
                               destructors \o Run(ud, Len(item.methods)) \o <<ud>>
                         /\ Len(objs') = ud + Len(item.methods)
                         /\ objs'[ud].link = "live"
                    [] last'.res = "panic" -> UNCHANGED <<objs, destructors>>
                    [] OTHER ->
                         /\ item.fail > 0
                         /\ destructors' = destructors \o Run(ud, item.fail)
                         /\ Entries(destructors', ud) = 0
                         /\ Len(objs') = ud + item.fail
                         /\ objs'[ud].link = "none"
                         /\ \A k \in 1..item.fail :
                               /\ objs'[ud + k].kind = "function"
                               /\ objs'[ud + k].link = "live"
        /\ \A u \in UserDataIds : objs[u].link = "none" => Entries(destructors, u) = 0
        /\ scope' = "done" =>
              \A i \in 1..Len(objs') :
                  objs'[i].kind = "function" => objs'[i].link = "destructed"
      ]_vars

\* After the drop: a userdata whose creation failed was never registered,
\* and the method wrapped for it has lost its closure.
C28_Witness ==
    /\ scope = "done"
    /\ \E u \in UserDataIds :
          /\ objs[u].link = "none"
          /\ \E f \in FunctionIds : objs[f].owner = u /\ objs[f].link = "destructed"

\* C29: a call of a MethodMut wrapper that fails, at the type check, at the
\* RefCell of the closure or at the exclusive borrow of the data, leaves the
\* guard of every closure and the borrow state of every cell as they were,
\* and the running calls with theirs; between calls the wrapper of a live
\* userdata can be called again.
C29_RejectedCall ==
    [][ /\ (last'.op = "call" /\ objs[last'.f].mkind = "MethodMut"
              /\ objs[last'.f].owner # 0 /\ Live(last'.f) /\ last'.res # "Ok") =>
              /\ last'.res \in {"UserDataTypeMismatch", "UserDataDestructed",
                                "RecursiveMutCallback", "UserDataBorrowMutError"}
              /\ UNCHANGED <<objs, stack, tguard>>
        /\ \A f \in FunctionIds \cap Handles :
              (objs[f].mkind = "MethodMut" /\ objs[f].owner # 0 /\ Live(f)
                  /\ Live(objs[f].owner) /\ stack = <<>>) =>
                    /\ ~objs[f].guard
                    /\ objs[objs[f].owner].borrow = 0
                    /\ call_callback(f, objs[f].owner).res = "Ok"
      ]_vars

\* A MethodMut wrapper was refused at the borrow of the data, which an outer
\* call holds; its own closure is not borrowed and the outer call goes on.
C29_Witness ==
    /\ last.op = "call"
    /\ objs[last.f].mkind = "MethodMut"
    /\ last.res = "UserDataBorrowMutError"
    /\ ~objs[last.f].guard
    /\ last.val = objs[last.f].owner
    /\ objs[last.val].borrow = 0 - 1
    /\ Len(stack) = 1
    /\ stack[1].ud = last.val
    /\ objs[stack[1].f].guard


----------------------------------------------------------------------------
\* MultiValue and the multivalue pool of the Lua state.

MaxLen == 2         \* values in one MultiValue
PoolSize == 1       \* containers the pool of the Lua state keeps

\* The callers that own a MultiValue at a time, and the values they push.
Callers == {"c1", "c2"}
Vals == {"a", "b"}
Failure == "err"
\* The failures an item of a fallible source may be.
Failures == {Failure, "err2"}

Max(a, b) == IF a >= b THEN a ELSE b

RECURSIVE Reverse(_)
Reverse(v) == IF v = <<>> THEN <<>> ELSE Append(Reverse(Tail(v)), Head(v))

\* A MultiValue: v is the Vec<Value> in storage order (the logical front is
\* its last element), cap the capacity the Vec has allocated.
MultiValue(v, cap) == [v |-> v, cap |-> cap]

\* MultiValue::new
MultiValue_new == MultiValue(<<>>, 0)

\* A clear that leaves the values in the Vec.
clear_keeps(m) == m

\* MultiValue::clear: the values go, the capacity stays.
clear(m) == MultiValue(<<>>, m.cap)

\* MultiValue::push_front
push_front(m, value) == MultiValue(Append(m.v, value), Max(m.cap, Len(m.v) + 1))

\* A pop_front that takes the value at the start of the storage.
pop_front_storage(m) ==
    IF m.v = <<>> THEN [m |-> m, value |-> <<>>]
    ELSE [m |-> MultiValue(Tail(m.v), m.cap), value |-> <<Head(m.v)>>]

\* MultiValue::pop_front: the list that is left and the value popped, if any.
pop_front(m) ==
    IF m.v = <<>> THEN [m |-> m, value |-> <<>>]
    ELSE [m |-> MultiValue(SubSeq(m.v, 1, Len(m.v) - 1), m.cap),
          value |-> <<m.v[Len(m.v)]>>]

\* A loop that steps over a failing item and reads on to the end.
RECURSIVE refill_loop_skips(_, _)
refill_loop_skips(v, iter) ==
    IF iter = <<>> THEN [v |-> v, res |-> "Ok", rest |-> <<>>]
    ELSE IF Head(iter) \in Failures
         THEN [refill_loop_skips(v, Tail(iter)) EXCEPT !.res = Head(iter)]
    ELSE refill_loop_skips(Append(v, Head(iter)), Tail(iter))

\* The loop of refill: items are pushed until the first failure, which is
\* returned by `?`; rest is what the loop has not read from the source.
RECURSIVE refill_loop(_, _)
refill_loop(v, iter) ==
    IF iter = <<>> THEN [v |-> v, res |-> "Ok", rest |-> <<>>]
    ELSE IF Head(iter) \in Failures
         THEN [v |-> v, res |-> Head(iter), rest |-> Tail(iter)]
    ELSE refill_loop(Append(v, Head(iter)), Tail(iter))

\* MultiValue::refill: clear, push every item, reverse when all succeeded.
refill(m, iter) ==
    LET got == refill_loop(clear(m).v, iter)
        cap == Max(m.cap, Len(got.v))
    IN  IF got.res = "Ok"
        THEN [m |-> MultiValue(Reverse(got.v), cap), res |-> "Ok", rest |-> got.rest]
        ELSE [m |-> MultiValue(got.v, cap), res |-> got.res, rest |-> got.rest]

\* Lua::new_multivalue_from_pool: the container last returned to the pool,
\* its length reset to zero, or a new one when the pool is empty.
new_multivalue_from_pool(p) ==
    IF p = <<>> THEN [m |-> MultiValue_new, pool |-> p, res |-> "new"]
    ELSE [m |-> clear(p[Len(p)]), pool |-> SubSeq(p, 1, Len(p) - 1), res |-> "pooled"]

\* Lua::return_multivalue_to_pool: the container is cleared and kept, or
\* dropped when the pool is full.
return_multivalue_to_pool(p, m) ==
    IF Len(p) < PoolSize THEN Append(p, clear(m)) ELSE p

\* MultiValue::new_or_pooled
new_or_pooled(p) == new_multivalue_from_pool(p)

\* MultiValue::return_to_pool
return_to_pool(p, m) == return_multivalue_to_pool(p, m)

\* The sources refill reads: values, some of them failing.
RECURSIVE Sources(_)
Sources(n) ==
    IF n = 0 THEN {<<>>}
    ELSE Sources(n - 1) \cup
         {Append(s, x) : s \in Sources(n - 1), x \in Vals \cup {Failure}}

PoolLast(op, c, res) == [op |-> op, f |-> c, res |-> res, val |-> 0]

PoolInit ==
    /\ pool = <<>>
    /\ held = [c \in Callers |-> <<>>]
    /\ obtained = MultiValue_new
    /\ last = NoLast
    /\ plan = <<>>
    /\ objs = <<>>
    /\ destructors = <<>>
    /\ to_drop = <<>>
    /\ scope = "alive"
    /\ stack = <<>>
    /\ tguard = FALSE

PoolFrame == UNCHANGED <<plan, objs, destructors, to_drop, scope, stack, tguard>>

\* A caller without a list gets one from new_or_pooled.
NewOrPooled ==
    /\ \E c \in Callers :
          /\ held[c] = <<>>
          /\ LET got == new_or_pooled(pool) IN
                /\ pool' = got.pool
                /\ obtained' = got.m
                /\ held' = [held EXCEPT ![c] = <<got.m>>]
                /\ last' = PoolLast("new_or_pooled", c, got.res)
    /\ PoolFrame

PushFront ==
    /\ \E c \in Callers : \E value \in Vals :
          /\ held[c] # <<>>
          /\ Len(held[c][1].v) < MaxLen
          /\ held' = [held EXCEPT ![c] = <<push_front(held[c][1], value)>>]
          /\ last' = [op |-> "push_front", f |-> c, res |-> "Ok", val |-> value]
    /\ UNCHANGED <<pool, obtained>>
    /\ PoolFrame

PopFront ==
    /\ \E c \in Callers :
          /\ held[c] # <<>>
          /\ held' = [held EXCEPT ![c] = <<pop_front(held[c][1]).m>>]
          /\ last' = [op |-> "pop_front", f |-> c, res |-> "Ok",
                      val |-> pop_front(held[c][1]).value]
    /\ UNCHANGED <<pool, obtained>>
    /\ PoolFrame

\* refill from one of the sources S; val keeps the source and how many of
\* its items were read.
RefillFrom(S) ==
    /\ \E c \in Callers : \E iter \in S :
          /\ held[c] # <<>>
          /\ LET got == refill(held[c][1], iter) IN
                /\ held' = [held EXCEPT ![c] = <<got.m>>]
                /\ last' = [op |-> "refill", f |-> c, res |-> got.res,
                            val |-> [iter |-> iter,
                                     read |-> Len(iter) - Len(got.rest)]]
    /\ UNCHANGED <<pool, obtained>>
    /\ PoolFrame

Refill == RefillFrom(Sources(MaxLen))

\* A caller gives its list back with return_to_pool.
ReturnToPool ==
    /\ \E c \in Callers :
          /\ held[c] # <<>>
          /\ pool' = return_to_pool(pool, held[c][1])
          /\ held' = [held EXCEPT ![c] = <<>>]
          /\ last' = PoolLast("return_to_pool", c,
                              IF Len(pool) < PoolSize THEN "kept" ELSE "dropped")
    /\ UNCHANGED obtained
    /\ PoolFrame

\* A caller drops its list.
DropList ==
    /\ \E c \in Callers :
          /\ held[c] # <<>>
          /\ held' = [held EXCEPT ![c] = <<>>]
          /\ last' = PoolLast("drop", c, "Ok")
    /\ UNCHANGED <<pool, obtained>>
    /\ PoolFrame

PoolNext ==
    \/ NewOrPooled
    \/ PushFront
    \/ PopFront
    \/ Refill
    \/ ReturnToPool
    \/ DropList

PoolSpec == PoolInit /\ [][PoolNext]_vars

\* C10: whatever the earlier users of a container pushed or refilled, the
\* list new_or_pooled returns has length zero and holds none of it, and no
\* container waiting in the pool holds a value.
C10_PoolHygiene ==
    /\ \A k \in 1..Len(pool) : Len(pool[k].v) = 0
    /\ last.op = "new_or_pooled" =>
          /\ Len(obtained.v) = 0
          /\ held[last.f] = <<obtained>>

\* new_or_pooled returned a container an earlier user had filled.
C10_Witness ==
    /\ last.op = "new_or_pooled"
    /\ last.res = "pooled"
    /\ obtained.cap = MaxLen
    /\ Len(obtained.v) = 0

----------------------------------------------------------------------------
\* Traversal and random access of a MultiValue.
\*
\* ListSpec: one MultiValue at a time, made by from_vec, changed by
\* push_front, pop_front, refill and drain_all, and read by the traversals,
\* get and the Index operator.

\* The sequences of at most n elements of S.
RECURSIVE SeqsOf(_, _)
SeqsOf(S, n) ==
    IF n = 0 THEN {<<>>}
    ELSE SeqsOf(S, n - 1) \cup {Append(s, x) : s \in SeqsOf(S, n - 1), x \in S}

\* Iterator::rev over the first k elements of the Vec: next_back yields v[k],
\* then v[k - 1], down to v[1].
RECURSIVE rev_from(_, _)
rev_from(v, k) == IF k = 0 THEN <<>> ELSE <<v[k]>> \o rev_from(v, k - 1)

rev(v) == rev_from(v, Len(v))

\* MultiValue::iter
iter(m) == rev(m.v)

\* IntoIterator for MultiValue and for &MultiValue
into_iter(m) == rev(m.v)

\* A from_vec that stores the Vec as it comes.
from_vec_unreversed(v) == MultiValue(v, Len(v))

\* MultiValue::from_vec
from_vec(v) == MultiValue(Reverse(v), Len(v))

\* MultiValue::into_vec
into_vec(m) == Reverse(m.v)

\* MultiValue::drain_all: the values drained and the list that is left.
drain_all(m) == [m |-> MultiValue(<<>>, m.cap), out |-> rev(m.v)]

\* A get that indexes the storage from its start.
get_storage(m, index) ==
    IF index < Len(m.v) THEN <<m.v[index + 1]>> ELSE <<>>

\* MultiValue::get: Some(&self.0[len - index - 1]) or None; the Vec is
\* indexed from 0, the sequence from 1.
get(m, index) ==
    IF index < Len(m.v) THEN <<m.v[(Len(m.v) - index - 1) + 1]>> ELSE <<>>

\* Index<usize> for MultiValue: the value, or a panic when get is None.
Index(m, index) ==
    IF get(m, index) # <<>> THEN [res |-> "Ok", value |-> get(m, index)]
    ELSE [res |-> "panic", value |-> <<>>]

\* The sources refill is tried on: those of at most n items that all
\* succeed, and those where fewer than n items come before a failure of
\* either kind, with or without one more item, good or failing, after it.
AllSources(n) ==
    SeqsOf(Vals, n) \cup
    {pre \o <<f>> \o post : pre \in SeqsOf(Vals, n - 1), f \in Failures,
                            post \in SeqsOf(Vals \cup Failures, 1)}

ListInit == PoolInit

ListLast(op, c, res, val) == [op |-> op, f |-> c, res |-> res, val |-> val]

\* A caller makes the list under study with from_vec.
FromVec ==
    /\ \A d \in Callers : held[d] = <<>>
    /\ \E c \in Callers : \E v \in SeqsOf(Vals, MaxLen) :
          /\ held' = [held EXCEPT ![c] = <<from_vec(v)>>]
          /\ last' = ListLast("from_vec", c, "Ok", v)
    /\ UNCHANGED <<pool, obtained>>
    /\ PoolFrame

RefillAny == RefillFrom(AllSources(MaxLen))

\* iter() and the IntoIterator of a reference: the list is only read.
Iter ==
    /\ \E c \in Callers : \E op \in {"iter", "into_iter_ref"} :
          /\ held[c] # <<>>
          /\ last' = ListLast(op, c, "Ok",
                              IF op = "iter" THEN iter(held[c][1])
                              ELSE into_iter(held[c][1]))
    /\ UNCHANGED <<pool, held, obtained>>
    /\ PoolFrame

\* into_iter() and into_vec() take the list by value.
IntoIter ==
    /\ \E c \in Callers :
          /\ held[c] # <<>>
          /\ held' = [held EXCEPT ![c] = <<>>]
          /\ last' = ListLast("into_iter", c, "Ok", into_iter(held[c][1]))
    /\ UNCHANGED <<pool, obtained>>
    /\ PoolFrame

IntoVec ==
    /\ \E c \in Callers :
          /\ held[c] # <<>>
          /\ held' = [held EXCEPT ![c] = <<>>]
          /\ last' = ListLast("into_vec", c, "Ok", into_vec(held[c][1]))
    /\ UNCHANGED <<pool, obtained>>
    /\ PoolFrame

DrainAll ==
    /\ \E c \in Callers :
          /\ held[c] # <<>>
          /\ held' = [held EXCEPT ![c] = <<drain_all(held[c][1]).m>>]
          /\ last' = ListLast("drain_all", c, "Ok", drain_all(held[c][1]).out)
    /\ UNCHANGED <<pool, obtained>>
    /\ PoolFrame

Get ==
    /\ \E c \in Callers : \E index \in 0..MaxLen :
          /\ held[c] # <<>>
          /\ last' = ListLast("get", c, "Ok",
                              [index |-> index, out |-> get(held[c][1], index)])
    /\ UNCHANGED <<pool, held, obtained>>
    /\ PoolFrame

IndexOp ==
    /\ \E c \in Callers : \E index \in 0..MaxLen :
          /\ held[c] # <<>>
          /\ last' = ListLast("index", c, Index(held[c][1], index).res,
                              [index |-> index,
                               out |-> Index(held[c][1], index).value])
    /\ UNCHANGED <<pool, held, obtained>>
    /\ PoolFrame

ListNext ==
    \/ FromVec
    \/ PushFront
    \/ PopFront
    \/ RefillAny
    \/ Iter
    \/ IntoIter
    \/ IntoVec
    \/ DrainAll
    \/ Get
    \/ IndexOp

ListSpec == ListInit /\ [][ListNext]_vars

\* The list of the caller of the step, before and after it.
Before == held[last'.f][1]
After == held'[last'.f][1]

\* C11: every traversal yields the logical front-to-back order. The list
\* from_vec(v) is traversed as v by into_vec, iter, into_iter and drain_all;
\* after push_front(x) each traversal yields x and then what it yielded
\* before; iter, into_iter, into_vec and drain_all all yield the order
\* into_vec gives, iter and the IntoIterator of a reference leave the list as
\* it is, and drain_all leaves it empty.
C11_IterationOrder ==
    [][ /\ last'.op = "from_vec" =>
              /\ into_vec(After) = last'.val
              /\ iter(After) = last'.val
              /\ into_iter(After) = last'.val
              /\ drain_all(After).out = last'.val
        /\ last'.op = "push_front" =>
              /\ into_vec(After) = <<last'.val>> \o into_vec(Before)
              /\ iter(After) = <<last'.val>> \o iter(Before)
              /\ into_iter(After) = <<last'.val>> \o into_iter(Before)
              /\ drain_all(After).out = <<last'.val>> \o drain_all(Before).out
        /\ last'.op \in {"iter", "into_iter_ref", "into_iter", "into_vec", "drain_all"} =>
              last'.val = into_vec(Before)
        /\ last'.op \in {"iter", "into_iter_ref"} => held' = held
        /\ last'.op = "drain_all" => After.v = <<>>
      ]_vars

\* drain_all has emptied a list and yielded two different values, front first.
C11_Witness ==
    /\ last.op = "drain_all"
    /\ Len(last.val) >= 2
    /\ last.val[1] # last.val[2]
    /\ held[last.f][1].v = <<>>

\* C12: pop_front does not fail. From a list that is not empty it takes the
\* logical first element and the rest stays in order; from an empty list it
\* returns no value and the list stays empty. A pop_front right after
\* push_front(x) would return x and leave the values the list had before.
C12_PopFront ==
    [][ /\ last'.op = "pop_front" =>
              /\ last'.res = "Ok"
              /\ IF into_vec(Before) = <<>>
                 THEN last'.val = <<>> /\ After.v = <<>>
                 ELSE /\ last'.val = <<Head(into_vec(Before))>>
                      /\ into_vec(After) = Tail(into_vec(Before))
        /\ last'.op = "push_front" =>
              /\ pop_front(After).value = <<last'.val>>
              /\ pop_front(After).m.v = Before.v
      ]_vars

\* pop_front has returned the first of two different values.
C12_Witness ==
    /\ last.op = "pop_front"
    /\ last.val # <<>>
    /\ held[last.f][1].v # <<>>
    /\ last.val[1] # held[last.f][1].v[1]

\* C13: get(i) is the i-th element, counted from 0, of the logical order when
\* i is less than the length, none otherwise, and leaves the list alone.
C13_Get ==
    [][ last'.op = "get" =>
            LET i == last'.val.index
                L == into_vec(Before)
            IN  /\ i < Len(L) => last'.val.out = <<L[i + 1]>>
                /\ i >= Len(L) => last'.val.out = <<>>
                /\ held' = held
      ]_vars

\* get(1) has returned the second of two different values.
C13_Witness ==
    /\ last.op = "get"
    /\ last.val.index = 1
    /\ Len(held[last.f][1].v) = 2
    /\ last.val.out = <<into_vec(held[last.f][1])[2]>>
    /\ into_vec(held[last.f][1])[1] # into_vec(held[last.f][1])[2]

\* The position of the first failing item of a source, 0 when none fails.
FirstFailure(src) ==
    IF \E k \in 1..Len(src) : src[k] \in Failures
    THEN CHOOSE k \in 1..Len(src) :
            /\ src[k] \in Failures
            /\ \A j \in 1..(k - 1) : src[j] \notin Failures
    ELSE 0

Count(x, s) == Cardinality({k \in 1..Len(s) : s[k] = x})

\* Every value of s is a value of t, as many times at most.
SubBag(s, t) ==
    /\ \A k \in 1..Len(s) : s[k] \in Vals
    /\ \A x \in Vals : Count(x, s) <= Count(x, t)

\* C14: when no item of the source fails, refill succeeds and the list is
\* the source in order; when an item fails, refill returns the first
\* failure, has read the source up to it and no further, and the list holds
\* only items that came before the failure, nothing of what it held before.
C14_Refill ==
    [][ last'.op = "refill" =>
            LET src == last'.val.iter
                k == FirstFailure(src)
            IN  IF k = 0
                THEN /\ last'.res = "Ok"
                     /\ last'.val.read = Len(src)
                     /\ into_vec(After) = src
                ELSE /\ last'.res = src[k]
                     /\ last'.val.read = k
                     /\ SubBag(After.v, SubSeq(src, 1, k - 1))
      ]_vars

\* refill has failed after one item and before another, and the list is left
\* holding what was pushed before the failure.
C14_Witness ==
    /\ last.op = "refill"
    /\ last.res \in Failures
    /\ 1 < last.val.read
    /\ last.val.read < Len(last.val.iter)
    /\ held[last.f][1].v # <<>>

----------------------------------------------------------------------------
\* The Value model and the single-value conversions.

\* Bits of the guest Integer in the model. The host integer types and the
\* guest Number are scaled with it.
IntBits == 4

RECURSIVE Pow2(_)
Pow2(n) == IF n = 0 THEN 1 ELSE 2 * Pow2(n - 1)

\* enum Value: t is the variant; the payload is b for a boolean, n for an
\* Integer or a Number, s for a string, e for an Error, h for a handle.
Nil == [t |-> "Nil"]
Boolean(b) == [t |-> "Boolean", b |-> b]
LightUserData(p) == [t |-> "LightUserData", h |-> p]
Integer(i) == [t |-> "Integer", n |-> i]
Number(n) == [t |-> "Number", n |-> n]
String(s) == [t |-> "String", s |-> s]
Table(h) == [t |-> "Table", h |-> h]
Function(h) == [t |-> "Function", h |-> h]
Thread(h) == [t |-> "Thread", h |-> h]
UserData(h) == [t |-> "UserData", h |-> h]
Error(e) == [t |-> "Error", e |-> e]

\* Value::type_name
type_name(value) ==
    CASE value.t = "Nil" -> "nil"
      [] value.t = "Boolean" -> "boolean"
      [] value.t = "LightUserData" -> "lightuserdata"
      [] value.t = "Integer" -> "integer"
      [] value.t = "Number" -> "number"
      [] value.t = "String" -> "string"
      [] value.t = "Table" -> "table"
      [] value.t = "Function" -> "function"
      [] value.t = "Thread" -> "thread"
      [] value.t = "UserData" -> "userdata"
      [] value.t = "Error" -> "error"

\* types::Integer, the guest integer: a signed integer of IntBits bits.
IntegerMin == 0 - Pow2(IntBits - 1)
IntegerMax == Pow2(IntBits - 1) - 1

\* types::Number, the guest float: a binary float whose significand has
\* fewer bits than the guest integer. A Number of the model is the integer
\* the float is equal to.
MantBits == IntBits - 2

\* The host integer types of lua_convert_int!, narrower than the guest
\* integer, as wide, and wider.
HostInts == {"i32", "u32", "i64", "u64", "i128", "u128"}

Signed(T) == T \in {"i32", "i64", "i128"}

Bits(T) ==
    CASE T \in {"i32", "u32"} -> IntBits \div 2
      [] T \in {"i64", "u64"} -> IntBits
      [] T \in {"i128", "u128"} -> 2 * IntBits

MinOf(T) == IF Signed(T) THEN 0 - Pow2(Bits(T) - 1) ELSE 0
MaxOf(T) == IF Signed(T) THEN Pow2(Bits(T) - 1) - 1 ELSE Pow2(Bits(T)) - 1

\* The distance between neighbouring floats around the magnitude a.
RECURSIVE Ulp(_, _)
Ulp(a, u) == IF a < Pow2(MantBits) * u THEN u ELSE Ulp(a, 2 * u)

\* The float nearest to the magnitude a, ties to the even significand.
RoundAbs(a) ==
    LET u == Ulp(a, 1)
        q == a \div u
        r == a % u
    IN  IF 2 * r < u THEN q * u
        ELSE IF 2 * r > u THEN (q + 1) * u
        ELSE IF q % 2 = 0 THEN q * u
        ELSE (q + 1) * u

\* num_traits::cast of a host integer to Number: never None, rounds.
cast_to_Number(x) == IF x >= 0 THEN <<RoundAbs(x)>> ELSE <<0 - RoundAbs(0 - x)>>

\* num_traits::cast of an integer to Integer: None when out of range.
cast_to_Integer(x) == IF IntegerMin <= x /\ x <= IntegerMax THEN <<x>> ELSE <<>>

\* A cast that keeps the low bits.
cast_wrapping(x, T) == <<((x - MinOf(T)) % Pow2(Bits(T))) + MinOf(T)>>

\* num_traits::cast of an Integer or of an integral Number to the host
\* integer type T: None when out of the range of T.
cast(x, T) == IF MinOf(T) <= x /\ x <= MaxOf(T) THEN <<x>> ELSE <<>>

\* The result of a conversion.
Ok(x) == [res |-> "Ok", out |-> <<x>>, message |-> ""]
Err(kind, message) == [res |-> kind, out |-> <<>>, message |-> message]

\* The strings of the model and the number the guest reads in each, if any.
StrVals == {"", "abc", "2", "20"}
Numerals == {"2", "20"}
NumeralOf(s) == IF s = "2" THEN 2 ELSE 20

\* Lua::coerce_integer: an Integer as it is, a Number or a string that the
\* guest converts to an integer, None otherwise.
coerce_integer(value) ==
    CASE value.t \in {"Integer", "Number"} -> cast_to_Integer(value.n)
      [] value.t = "String" /\ value.s \in Numerals -> cast_to_Integer(NumeralOf(value.s))
      [] OTHER -> <<>>

\* Lua::coerce_number: a Number as it is, an Integer or a string that the
\* guest converts to a number, None otherwise.
coerce_number(value) ==
    CASE value.t = "Number" -> <<value.n>>
      [] value.t = "Integer" -> cast_to_Number(value.n)
      [] value.t = "String" /\ value.s \in Numerals -> cast_to_Number(NumeralOf(value.s))
      [] OTHER -> <<>>

\* IntoLua for bool
into_lua_bool(x) == Ok(Boolean(x))

\* A conversion to bool for which zero and the empty string are false.
from_lua_bool_zero(value) ==
    CASE value.t = "Nil" -> Ok(FALSE)
      [] value.t = "Boolean" -> Ok(value.b)
      [] value.t \in {"Integer", "Number"} -> Ok(value.n # 0)
      [] value.t = "String" -> Ok(value.s # "")
      [] OTHER -> Ok(TRUE)

\* FromLua for bool
from_lua_bool(value) ==
    CASE value.t = "Nil" -> Ok(FALSE)
      [] value.t = "Boolean" -> Ok(value.b)
      [] OTHER -> Ok(TRUE)

\* An into_lua that casts to Integer as the `as` operator does.
into_lua_int_wrapping(T, x) == Ok(Integer(cast_wrapping(x, "i64")[1]))

\* An into_lua without the fallback to a Number.
into_lua_int_strict(T, x) ==
    IF cast_to_Integer(x) # <<>> THEN Ok(Integer(cast_to_Integer(x)[1]))
    ELSE Err("ToLuaConversionError", "out of range")

\* lua_convert_int!, IntoLua: an Integer when the value fits, else a Number.
into_lua_int(T, x) ==
    IF cast_to_Integer(x) # <<>> THEN Ok(Integer(cast_to_Integer(x)[1]))
    ELSE IF cast_to_Number(x) # <<>> THEN Ok(Number(cast_to_Number(x)[1]))
    ELSE Err("ToLuaConversionError", "out of range")

\* A from_lua that narrows by keeping the low bits.
from_lua_int_wrapping(T, value) ==
    IF value.t \in {"Integer", "Number"} THEN Ok(cast_wrapping(value.n, T)[1])
    ELSE IF coerce_integer(value) # <<>> THEN Ok(cast_wrapping(coerce_integer(value)[1], T)[1])
    ELSE IF coerce_number(value) # <<>> THEN Ok(cast_wrapping(coerce_number(value)[1], T)[1])
    ELSE Err("FromLuaConversionError", "expected number or string coercible to number")

\* lua_convert_int!, FromLua: the match gives the Option of the cast, or
\* returns the error of a failed coercion; None is "out of range".
from_lua_int(T, value) ==
    LET opt == IF value.t \in {"Integer", "Number"} THEN <<cast(value.n, T)>>
               ELSE IF coerce_integer(value) # <<>>
                    THEN <<cast(coerce_integer(value)[1], T)>>
               ELSE IF coerce_number(value) # <<>>
                    THEN <<cast(coerce_number(value)[1], T)>>
               ELSE <<>>
    IN  IF opt = <<>>
        THEN Err("FromLuaConversionError", "expected number or string coercible to number")
        ELSE IF opt[1] = <<>> THEN Err("FromLuaConversionError", "out of range")
        ELSE Ok(opt[1][1])

\* The types converted: Value itself, bool and the host integers.
Types == {"Value", "bool"} \cup HostInts

\* IntoLua::into_lua of the type T
into_lua(T, x) ==
    CASE T = "Value" -> Ok(x)
      [] T = "bool" -> into_lua_bool(x)
      [] OTHER -> into_lua_int(T, x)

\* FromLua::from_lua of the type T
from_lua(T, value) ==
    CASE T = "Value" -> Ok(value)
      [] T = "bool" -> from_lua_bool(value)
      [] OTHER -> from_lua_int(T, value)

\* The Numbers of the model: the floats nearest to the host integers.
Floats == {cast_to_Number(x)[1] : x \in MinOf("i128")..MaxOf("u128")}

\* The guest values a conversion is given.
GuestValues ==
    {Nil, Boolean(TRUE), Boolean(FALSE), LightUserData(0), Table(1), Function(1),
     Thread(1), UserData(1), Error("RuntimeError")}
    \cup {Integer(i) : i \in IntegerMin..IntegerMax}
    \cup {Number(n) : n \in Floats}
    \cup {String(s) : s \in StrVals}

\* The values of a host type.
HostValues(T) ==
    CASE T = "Value" -> GuestValues
      [] T = "bool" -> BOOLEAN
      [] OTHER -> MinOf(T)..MaxOf(T)

\* ConvSpec: a host value is converted to the guest, a guest value to the
\* host, and the result of into_lua is converted back by from_lua.
ConvLast(op, T, x, r) ==
    [op |-> op, f |-> T, res |-> r.res,
     val |-> [in |-> x, out |-> r.out, message |-> r.message]]

\* A value of a host type T waits to be converted to the guest ("host"), or
\* a guest value waits to be converted to T ("guest").
ConvInit ==
    /\ \E T \in Types :
          \/ \E x \in HostValues(T) : last = ConvLast("host", T, x, Err("none", ""))
          \/ \E value \in GuestValues : last = ConvLast("guest", T, value, Err("none", ""))
    /\ pool = <<>>
    /\ held = [c \in Callers |-> <<>>]
    /\ obtained = MultiValue_new
    /\ plan = <<>>
    /\ objs = <<>>
    /\ destructors = <<>>
    /\ to_drop = <<>>
    /\ scope = "alive"
    /\ stack = <<>>
    /\ tguard = FALSE

ConvFrame ==
    /\ UNCHANGED <<pool, held, obtained>>
    /\ PoolFrame

IntoLua ==
    /\ last.op = "host"
    /\ last' = ConvLast("into_lua", last.f, last.val.in, into_lua(last.f, last.val.in))
    /\ ConvFrame

FromLua ==
    /\ last.op = "guest"
    /\ last' = ConvLast("from_lua", last.f, last.val.in, from_lua(last.f, last.val.in))
    /\ ConvFrame

\* from_lua of what into_lua has just returned.
FromLuaBack ==
    /\ last.op = "into_lua"
    /\ last.res = "Ok"
    /\ last' = ConvLast("round_trip", last.f, last.val.in,
                        from_lua(last.f, last.val.out[1]))
    /\ ConvFrame

ConvNext ==
    \/ IntoLua
    \/ FromLua
    \/ FromLuaBack

ConvSpec == ConvInit /\ [][ConvNext]_vars

\* C18: from_lua to bool never fails; it is false for nil and for the guest
\* false, and true for every other Value of every kind.
C18_Truthiness ==
    (last.op = "from_lua" /\ last.f = "bool") =>
        /\ last.res = "Ok"
        /\ last.val.out = <<last.val.in \notin {Nil, Boolean(FALSE)}>>

\* The empty string has been converted to true.
C18_Witness ==
    /\ last.op = "from_lua"
    /\ last.f = "bool"
    /\ last.val.in = String("")
    /\ last.val.out = <<TRUE>>

\* C19 as claimed: from_lua(into_lua(x)) succeeds and is x for every boolean
\* and every value of every host integer type.
C19_Original ==
    last.op = "round_trip" /\ last.f \in {"bool"} \cup HostInts =>
        /\ last.res = "Ok"
        /\ last.val.out = <<last.val.in>>

\* The host integer x goes through the guest unchanged: into_lua gives an
\* Integer, or a Number that is equal to x.
Representable(x) ==
    \/ IntegerMin <= x /\ x <= IntegerMax
    \/ cast_to_Number(x) = <<x>>

\* C19, amended: from_lua(into_lua(x)) succeeds and is x for every boolean
\* x, and for a value x of a host integer type exactly when x is in the
\* range of the guest integer or is equal to a guest float; for every other
\* x it fails or returns another value.
C19_RoundTrip ==
    /\ last.op = "round_trip" /\ last.f = "bool" =>
          /\ last.res = "Ok"
          /\ last.val.out = <<last.val.in>>
    /\ last.op = "round_trip" /\ last.f \in HostInts =>
          (Representable(last.val.in) <=>
              (last.res = "Ok" /\ last.val.out = <<last.val.in>>))

\* A value of the widest unsigned type, out of the range of the guest
\* integer and equal to a float, has come back unchanged.
C19_Witness ==
    /\ last.op = "round_trip"
    /\ last.f = "u128"
    /\ last.val.in > IntegerMax
    /\ last.res = "Ok"
    /\ last.val.out = <<last.val.in>>

\* C20: from_lua to a host integer type T returns the guest integer i when
\* i is in the range of T and the "out of range" conversion error when it is
\* not, never another value; a value that is neither an Integer nor a Number
\* goes through the coercion of the guest, is converted like the number the
\* coercion gives, and is a conversion error when the coercion gives none.
C20_FromGuestInt ==
    (last.op = "from_lua" /\ last.f \in HostInts) =>
        LET T == last.f
            value == last.val.in
        IN  /\ value.t = "Integer" =>
                  IF MinOf(T) <= value.n /\ value.n <= MaxOf(T)
                  THEN last.res = "Ok" /\ last.val.out = <<value.n>>
                  ELSE /\ last.res = "FromLuaConversionError"
                       /\ last.val.message = "out of range"
                       /\ last.val.out = <<>>
            /\ value.t \notin {"Integer", "Number"} =>
                  IF coerce_integer(value) # <<>>
                  THEN [res |-> last.res, out |-> last.val.out, message |-> last.val.message]
                           = from_lua(T, Integer(coerce_integer(value)[1]))
                  ELSE IF coerce_number(value) # <<>>
                  THEN [res |-> last.res, out |-> last.val.out, message |-> last.val.message]
                           = from_lua(T, Number(coerce_number(value)[1]))
                  ELSE /\ last.res = "FromLuaConversionError"
                       /\ last.val.out = <<>>

\* A guest integer out of the range of a narrower host type was refused.
C20_Witness ==
    /\ last.op = "from_lua"
    /\ last.f = "u32"
    /\ last.val.in.t = "Integer"
    /\ last.val.in.n > MaxOf("u32")
    /\ last.res = "FromLuaConversionError"
    /\ last.val.message = "out of range"

----------------------------------------------------------------------------
\* The multi-value conversions.
\*
\* MultiSpec: a caller receives a list of guest values, or makes one with
\* into_lua_multi; from_lua_multi consumes a list. The containers come from
\* the pool of the Lua state and go back to it.

\* Option::unwrap_or(Nil)
unwrap_or_Nil(opt) == IF opt = <<>> THEN Nil ELSE opt[1]

\* Lua::create_string: the guest string, or the error of the guest allocator.
create_string(s) == {Ok(String(s)), Err("MemoryError", "")}

\* What into_lua of a payload of type T may return: for a host string,
\* Value::String(lua.create_string(&self)?).
into_lua_outcomes(T, x) ==
    IF T = "StdString" THEN create_string(x) ELSE {into_lua(T, x)}

\* The payload types of the lists made, and the values of each.
PayloadTypes == {"bool", "i32", "StdString"}
Payloads(T) == IF T = "StdString" THEN StrVals ELSE HostValues(T)

\* What a conversion to a list returns: with the list m (none after an
\* error, when the container is dropped) and the pool that is left.
ToMulti(res, m, p) == [res |-> res, m |-> m, pool |-> p]

\* An encoding of Err(e) that pushes nil before the payload.
result_into_lua_multi_swapped(p, ok, conv) ==
    LET got == new_or_pooled(p)
    IN  IF conv.res # "Ok" THEN ToMulti(conv.res, <<>>, got.pool)
        ELSE IF ok THEN ToMulti("Ok", <<push_front(got.m, conv.out[1])>>, got.pool)
        ELSE ToMulti("Ok", <<push_front(push_front(got.m, Nil), conv.out[1])>>, got.pool)

\* IntoLuaMulti for StdResult<T, E>; ok tells Ok(v) from Err(e), conv is what
\* into_lua of the payload returned.
result_into_lua_multi(p, ok, conv) ==
    LET got == new_or_pooled(p)
    IN  IF conv.res # "Ok" THEN ToMulti(conv.res, <<>>, got.pool)
        ELSE IF ok THEN ToMulti("Ok", <<push_front(got.m, conv.out[1])>>, got.pool)
        ELSE ToMulti("Ok", <<push_front(push_front(got.m, conv.out[1]), Nil)>>, got.pool)

\* IntoLuaMulti for T: IntoLua
into_lua_multi(p, conv) ==
    LET got == new_or_pooled(p)
    IN  IF conv.res # "Ok" THEN ToMulti(conv.res, <<>>, got.pool)
        ELSE ToMulti("Ok", <<push_front(got.m, conv.out[1])>>, got.pool)

\* What a conversion from a list returns: the result r of the conversion
\* and the pool that is left.
FromMulti(r, p) == [r |-> r, pool |-> p]

\* A conversion of the value at the start of the storage.
from_lua_multi_storage(T, p, values) ==
    LET popped == pop_front_storage(values)
    IN  FromMulti(from_lua(T, unwrap_or_Nil(popped.value)), return_to_pool(p, popped.m))

\* FromLuaMulti for T: FromLua
from_lua_multi(T, p, values) ==
    LET popped == pop_front(values)
    IN  FromMulti(from_lua(T, unwrap_or_Nil(popped.value)), return_to_pool(p, popped.m))

\* FromLuaMulti for MultiValue
multivalue_from_lua_multi(p, values) == FromMulti(Ok(values), p)

\* Iterator::collect into Result<Vec<T>>: the first error, or every value.
RECURSIVE collect(_, _)
collect(T, vs) ==
    IF vs = <<>> THEN Ok(<<>>)
    ELSE LET r == from_lua(T, Head(vs))
         IN  IF r.res # "Ok" THEN r
             ELSE LET rest == collect(T, Tail(vs))
                  IN  IF rest.res # "Ok" THEN rest
                      ELSE Ok(<<r.out[1]>> \o rest.out[1])

\* FromLuaMulti for Variadic<T>
variadic_from_lua_multi(T, p, values) ==
    LET drained == drain_all(values)
    IN  FromMulti(collect(T, drained.out), return_to_pool(p, drained.m))

\* The multi-valued types a tuple may end with.
RestTypes ==
    {[multi |-> "MultiValue", T |-> "Value"],
     [multi |-> "Variadic", T |-> "bool"],
     [multi |-> "Variadic", T |-> "i32"]}

\* $last::from_lua_multi
rest_from_lua_multi(Rest, p, values) ==
    IF Rest.multi = "MultiValue" THEN multivalue_from_lua_multi(p, values)
    ELSE variadic_from_lua_multi(Rest.T, p, values)

\* A tuple conversion that hands the whole list to its last element.
tuple_from_lua_multi_whole(A, B, Rest, p, values) ==
    LET pa == pop_front(values)
        ra == from_lua(A, unwrap_or_Nil(pa.value))
        pb == pop_front(pa.m)
        rb == from_lua(B, unwrap_or_Nil(pb.value))
        rr == rest_from_lua_multi(Rest, p, values)
    IN  IF ra.res # "Ok" THEN FromMulti(ra, p)
        ELSE IF rb.res # "Ok" THEN FromMulti(rb, p)
        ELSE IF rr.r.res # "Ok" THEN rr
        ELSE FromMulti(Ok([a |-> ra.out[1], b |-> rb.out[1], rest |-> rr.r.out[1]]),
                       rr.pool)

\* impl_tuple!(A B C), FromLuaMulti for (A, B, Rest): each `?` returns the
\* error and drops the list.
tuple_from_lua_multi(A, B, Rest, p, values) ==
    LET pa == pop_front(values)
        ra == from_lua(A, unwrap_or_Nil(pa.value))
        pb == pop_front(pa.m)
        rb == from_lua(B, unwrap_or_Nil(pb.value))
        rr == rest_from_lua_multi(Rest, p, pb.m)
    IN  IF ra.res # "Ok" THEN FromMulti(ra, p)
        ELSE IF rb.res # "Ok" THEN FromMulti(rb, p)
        ELSE IF rr.r.res # "Ok" THEN rr
        ELSE FromMulti(Ok([a |-> ra.out[1], b |-> rb.out[1], rest |-> rr.r.out[1]]),
                       rr.pool)

\* The loop of refill over the results of into_lua: values are pushed until
\* the first failure, which is returned by `?`.
RECURSIVE refill_results_loop(_, _)
refill_results_loop(v, rs) ==
    IF rs = <<>> THEN [v |-> v, res |-> "Ok"]
    ELSE IF Head(rs).res # "Ok" THEN [v |-> v, res |-> Head(rs).res]
    ELSE refill_results_loop(Append(v, Head(rs).out[1]), Tail(rs))

\* MultiValue::refill of an iterator of Result<Value>: clear, push every
\* value, reverse when all succeeded.
refill_results(m, rs) ==
    LET got == refill_results_loop(clear(m).v, rs)
        cap == Max(m.cap, Len(got.v))
    IN  IF got.res = "Ok"
        THEN [m |-> MultiValue(Reverse(got.v), cap), res |-> "Ok"]
        ELSE [m |-> MultiValue(got.v, cap), res |-> got.res]

\* IntoLuaMulti for Variadic<T>: refill from the elements converted by
\* into_lua; the container is dropped on an error.
variadic_into_lua_multi(T, p, xs) ==
    LET got == new_or_pooled(p)
        filled == refill_results(got.m, [k \in 1..Len(xs) |-> into_lua(T, xs[k])])
    IN  IF filled.res # "Ok" THEN ToMulti(filled.res, <<>>, got.pool)
        ELSE ToMulti("Ok", <<filled.m>>, got.pool)

\* IntoLuaMulti for MultiValue: the list itself.
multivalue_into_lua_multi(p, values) == ToMulti("Ok", <<values>>, p)

\* A tuple conversion whose push_reverse! pushes the first element first.
tuple_into_lua_multi_forward(ca, cb, rest) ==
    IF rest.res # "Ok" THEN ToMulti(rest.res, <<>>, rest.pool)
    ELSE IF cb.res # "Ok" THEN ToMulti(cb.res, <<>>, rest.pool)
    ELSE IF ca.res # "Ok" THEN ToMulti(ca.res, <<>>, rest.pool)
    ELSE ToMulti("Ok", <<push_front(push_front(rest.m[1], ca.out[1]), cb.out[1])>>,
                 rest.pool)

\* impl_tuple!(A B C), IntoLuaMulti for (A, B, Last): rest is what
\* $last.into_lua_multi(lua) returned, ca and cb what into_lua of a and of b
\* return. push_reverse! evaluates and pushes b, then a; each `?` returns the
\* error and drops the list.
tuple_into_lua_multi(ca, cb, rest) ==
    IF rest.res # "Ok" THEN ToMulti(rest.res, <<>>, rest.pool)
    ELSE IF cb.res # "Ok" THEN ToMulti(cb.res, <<>>, rest.pool)
    ELSE IF ca.res # "Ok" THEN ToMulti(ca.res, <<>>, rest.pool)
    ELSE ToMulti("Ok", <<push_front(push_front(rest.m[1], cb.out[1]), ca.out[1])>>,
                 rest.pool)

\* Error::BadArgument { to, pos, name: None, cause }
BadArgument(to, pos, cause) ==
    [res |-> "BadArgument", out |-> <<>>, message |-> "",
     to |-> to, pos |-> pos, cause |-> cause]

\* FromLua::from_lua_arg: the conversion, its failure wrapped with the
\* position i and the function name to (an Option: <<>> or <<name>>).
map_err_BadArgument(r, i, to) ==
    IF r.res = "Ok" THEN r ELSE BadArgument(to, i, r)
from_lua_arg(T, value, i, to) == map_err_BadArgument(from_lua(T, value), i, to)

\* What a conversion of arguments returns: the result r, the pool that is
\* left, and the number of elements that were given to a conversion.
FromArgs(r, p, converted) == [r |-> r, pool |-> p, converted |-> converted]

\* FromLuaMulti::from_lua_multi_args for T: FromLua
from_lua_multi_args(T, p, values, i, to) ==
    LET popped == pop_front(values)
    IN  FromMulti(from_lua_arg(T, unwrap_or_Nil(popped.value), i, to),
                  return_to_pool(p, popped.m))

\* What a tuple of arguments may end with: a single value, or a multi-valued
\* type.
ArgRestTypes ==
    {[multi |-> "T", T |-> "i32"],
     [multi |-> "T", T |-> "bool"],
     [multi |-> "MultiValue", T |-> "Value"],
     [multi |-> "Variadic", T |-> "i32"]}

\* $last::from_lua_multi_args: that of a single value, and for MultiValue
\* and Variadic the default of the trait, which ignores i and to.
rest_from_lua_multi_args(Rest, p, values, i, to) ==
    IF Rest.multi = "T" THEN from_lua_multi_args(Rest.T, p, values, i, to)
    ELSE rest_from_lua_multi(Rest, p, values)

\* A conversion of arguments that reports every element at position i.
tuple_from_lua_multi_args_same_pos(A, B, Rest, p, values, i, to) ==
    LET pa == pop_front(values)
        ra == from_lua_arg(A, unwrap_or_Nil(pa.value), i, to)
        pb == pop_front(pa.m)
        rb == from_lua_arg(B, unwrap_or_Nil(pb.value), i, to)
        rr == rest_from_lua_multi_args(Rest, p, pb.m, i, to)
    IN  IF ra.res # "Ok" THEN FromArgs(ra, p, 1)
        ELSE IF rb.res # "Ok" THEN FromArgs(rb, p, 2)
        ELSE IF rr.r.res # "Ok" THEN FromArgs(rr.r, rr.pool, 3)
        ELSE FromArgs(Ok([a |-> ra.out[1], b |-> rb.out[1], rest |-> rr.r.out[1]]),
                      rr.pool, 3)

\* impl_tuple!(A B C), from_lua_multi_args for (A, B, Rest), from the
\* results ra, rb of from_lua_arg and rr of $last::from_lua_multi_args: each
\* `?` returns the error and drops the list.
tuple_args_result(p, ra, rb, rr) ==
    IF ra.res # "Ok" THEN FromArgs(ra, p, 1)
    ELSE IF rb.res # "Ok" THEN FromArgs(rb, p, 2)
    ELSE IF rr.r.res # "Ok" THEN FromArgs(rr.r, rr.pool, 3)
    ELSE FromArgs(Ok([a |-> ra.out[1], b |-> rb.out[1], rest |-> rr.r.out[1]]),
                  rr.pool, 3)

\* The second element and the rest, from the list pb the second pop_front
\* left; i has been incremented once.
tuple_args_second(B, Rest, p, ra, pb, i, to) ==
    tuple_args_result(p, ra,
                      from_lua_arg(B, unwrap_or_Nil(pb.value), i, to),
                      rest_from_lua_multi_args(Rest, p, pb.m, i + 1, to))

\* The first element, from the list pa the first pop_front left.
tuple_args_first(A, B, Rest, p, pa, i, to) ==
    tuple_args_second(B, Rest, p,
                      from_lua_arg(A, unwrap_or_Nil(pa.value), i, to),
                      pop_front(pa.m), i + 1, to)

\* impl_tuple!(A B C), from_lua_multi_args for (A, B, Rest): i += 1 after
\* each element.
tuple_from_lua_multi_args(A, B, Rest, p, values, i, to) ==
    tuple_args_first(A, B, Rest, p, pop_front(values), i, to)

\* The guest values of the lists received, and the types their elements are
\* converted to.
ArgVals == {Integer(1), String("abc")}
ElemTypes == {"Value", "bool", "i32"}

\* The caller that converts; the lists are made and consumed one at a time.
Converter == CHOOSE c \in Callers : TRUE

MultiInit == PoolInit

\* A caller receives the arguments of a guest call, one list at a time.
Args ==
    /\ \A d \in Callers : held[d] = <<>>
    /\ \E c \in {Converter} : \E v \in SeqsOf(ArgVals, MaxLen + 1) :
          /\ held' = [held EXCEPT ![c] = <<from_vec(v)>>]
          /\ last' = ListLast("args", c, "Ok", v)
    /\ UNCHANGED <<pool, obtained>>
    /\ PoolFrame

\* A caller converts a Result to a list.
ResultIntoLuaMulti ==
    /\ \A d \in Callers : held[d] = <<>>
    /\ \E c \in {Converter} : \E ok \in BOOLEAN : \E T \in PayloadTypes :
       \E x \in Payloads(T) : \E conv \in into_lua_outcomes(T, x) :
          LET to == result_into_lua_multi(pool, ok, conv) IN
             /\ held' = [held EXCEPT ![c] = to.m]
             /\ pool' = to.pool
             /\ last' = ListLast("result_into_lua_multi", c, to.res,
                                 [ok |-> ok, T |-> T, x |-> x, conv |-> conv])
    /\ UNCHANGED obtained
    /\ PoolFrame

\* A caller converts one value to a list.
IntoLuaMulti ==
    /\ \A d \in Callers : held[d] = <<>>
    /\ \E c \in {Converter} : \E T \in PayloadTypes :
       \E x \in Payloads(T) : \E conv \in into_lua_outcomes(T, x) :
          LET to == into_lua_multi(pool, conv) IN
             /\ held' = [held EXCEPT ![c] = to.m]
             /\ pool' = to.pool
             /\ last' = ListLast("into_lua_multi", c, to.res,
                                 [T |-> T, x |-> x, conv |-> conv])
    /\ UNCHANGED obtained
    /\ PoolFrame

\* A caller converts its list to one value of type T.
FromLuaMulti ==
    /\ \E c \in Callers : \E T \in ElemTypes :
          /\ held[c] # <<>>
          /\ LET from == from_lua_multi(T, pool, held[c][1]) IN
                /\ held' = [held EXCEPT ![c] = <<>>]
                /\ pool' = from.pool
                /\ last' = ListLast("from_lua_multi", c, from.r.res,
                                    [T |-> T, len |-> Len(held[c][1].v),
                                     out |-> from.r.out, message |-> from.r.message])
    /\ UNCHANGED obtained
    /\ PoolFrame

\* A caller converts its list to a tuple (A, B, Rest).
TupleFromLuaMulti ==
    /\ \E c \in Callers : \E A \in ElemTypes : \E B \in ElemTypes : \E Rest \in RestTypes :
          /\ held[c] # <<>>
          /\ LET from == tuple_from_lua_multi(A, B, Rest, pool, held[c][1]) IN
                /\ held' = [held EXCEPT ![c] = <<>>]
                /\ pool' = from.pool
                /\ last' = ListLast("tuple_from_lua_multi", c, from.r.res,
                                    [A |-> A, B |-> B, Rest |-> Rest,
                                     len |-> Len(held[c][1].v),
                                     out |-> from.r.out, message |-> from.r.message])
    /\ UNCHANGED obtained
    /\ PoolFrame

\* The positions the arguments start at, the function names given, and the
\* types of the first two arguments.
Positions == {1, 3}
Names == {<<>>, <<"f">>}
ArgTypes == {"bool", "i32"}

\* A caller converts its list to the arguments (A, B, Rest) of a function.
TupleFromLuaMultiArgs ==
    /\ \E c \in Callers : \E A \in ArgTypes : \E B \in ArgTypes :
       \E Rest \in ArgRestTypes : \E i \in Positions : \E to \in Names :
          /\ held[c] # <<>>
          /\ LET from == tuple_from_lua_multi_args(A, B, Rest, pool, held[c][1], i, to) IN
                /\ held' = [held EXCEPT ![c] = <<>>]
                /\ pool' = from.pool
                /\ last' = ListLast("tuple_from_lua_multi_args", c, from.r.res,
                                    [A |-> A, B |-> B, Rest |-> Rest, i |-> i, to |-> to,
                                     len |-> Len(held[c][1].v),
                                     r |-> from.r, converted |-> from.converted])
    /\ UNCHANGED obtained
    /\ PoolFrame

\* The elements of the tuples converted to the guest: the types of a and of
\* b, the payloads of each type, and the members of a Variadic<i32>.
FirstTypes == {"bool", "StdString"}
SecondTypes == {"i32", "StdString"}
TuplePayloads(T) ==
    CASE T = "bool" -> {TRUE}
      [] T = "i32" -> {1}
      [] OTHER -> {"abc"}
VariadicVals == {0, 1}

\* The last element of a tuple converted to the guest: a single string, a
\* Variadic<i32>, or the MultiValue the caller holds.
LastOutcomes(c) ==
    IF held[c] # <<>>
    THEN {[kind |-> "MultiValue", list |-> into_vec(held[c][1]),
           rest |-> multivalue_into_lua_multi(pool, held[c][1])]}
    ELSE {[kind |-> "T", list |-> conv.out,
           rest |-> into_lua_multi(pool, conv)] : conv \in create_string("2")}
         \cup
         {[kind |-> "Variadic", list |-> [k \in 1..Len(xs) |-> Integer(xs[k])],
           rest |-> variadic_into_lua_multi("i32", pool, xs)] :
              xs \in SeqsOf(VariadicVals, MaxLen)}

\* A caller converts a tuple (a, b, last) to a list.
TupleIntoLuaMulti ==
    /\ \A d \in Callers \ {Converter} : held[d] = <<>>
    /\ held[Converter] # <<>> => last.op = "args"
    /\ \E c \in {Converter} : \E A \in FirstTypes : \E B \in SecondTypes :
       \E a \in TuplePayloads(A) : \E b \in TuplePayloads(B) :
       \E ca \in into_lua_outcomes(A, a) : \E cb \in into_lua_outcomes(B, b) :
       \E lst \in LastOutcomes(c) :
          LET to == tuple_into_lua_multi(ca, cb, lst.rest) IN
             /\ held' = [held EXCEPT ![c] = to.m]
             /\ pool' = to.pool
             /\ last' = ListLast("tuple_into_lua_multi", c, to.res,
                                 [ca |-> ca, cb |-> cb, kind |-> lst.kind,
                                  list |-> lst.list, rest |-> lst.rest.res])
    /\ UNCHANGED obtained
    /\ PoolFrame

MultiNext ==
    \/ Args
    \/ ResultIntoLuaMulti
    \/ IntoLuaMulti
    \/ FromLuaMulti
    \/ TupleFromLuaMulti
    \/ TupleFromLuaMultiArgs
    \/ ReturnToPool
    \/ DropList

MultiSpec == MultiInit /\ [][MultiNext]_vars

\* C15: the list made of Ok(v) is [v], the list made of Err(e) is [nil, e],
\* front to back, v and e being the payload converted by into_lua; the
\* conversion fails when, and only when, into_lua of the payload fails, and
\* then with its error.
C15_ResultEncoding ==
    [][ last'.op = "result_into_lua_multi" =>
            LET conv == last'.val.conv
            IN  IF conv.res = "Ok"
                THEN /\ last'.res = "Ok"
                     /\ into_vec(After) =
                            IF last'.val.ok THEN <<conv.out[1]>> ELSE <<Nil, conv.out[1]>>
                     /\ iter(After) = into_vec(After)
                ELSE /\ last'.res = conv.res
                     /\ held'[last'.f] = <<>>
      ]_vars

\* Err("abc") was encoded in a container that came from the pool.
C15_Witness ==
    /\ last.op = "result_into_lua_multi"
    /\ ~last.val.ok
    /\ last.res = "Ok"
    /\ into_vec(held[last.f][1]) = <<Nil, String("abc")>>
    /\ held[last.f][1].cap > 2

C17_SingleValue ==
    [][ /\ last'.op = "into_lua_multi" =>
              LET conv == last'.val.conv
              IN  IF conv.res = "Ok"
                  THEN /\ last'.res = "Ok"
                       /\ into_vec(After) = <<conv.out[1]>>
                  ELSE /\ last'.res = conv.res
                       /\ held'[last'.f] = <<>>
        /\ last'.op = "from_lua_multi" =>
              LET L == into_vec(Before)
                  r == from_lua(last'.val.T, IF L = <<>> THEN Nil ELSE L[1])
              IN  /\ last'.res = r.res
                  /\ last'.val.out = r.out
                  /\ last'.val.message = r.message
      ]_vars

\* A list of three values was converted to the host integer of its first.
C17_Witness ==
    /\ last.op = "from_lua_multi"
    /\ last.val.T = "i32"
    /\ last.val.len = 3
    /\ last.res = "Ok"
    /\ last.val.out = <<1>>

\* The k-th of the arguments (k from 0) of the list converted by the step,
\* nil standing for one the list does not have, and its conversion.
ArgAt(k) ==
    LET L == into_vec(Before) IN IF Len(L) > k THEN L[k + 1] ELSE Nil
ArgConv(T, k) == from_lua(T, ArgAt(k))

\* The multi-valued last element of the step failed: one of the arguments
\* from the third on does not convert.
RestFailed ==
    LET L == into_vec(Before)
    IN  /\ last'.val.Rest.multi = "Variadic"
        /\ collect(last'.val.Rest.T, IF Len(L) >= 3 THEN SubSeq(L, 3, Len(L)) ELSE <<>>).res # "Ok"

\* The index of the first of the three elements whose conversion fails, 3
\* when none does.
FirstFailing ==
    IF ArgConv(last'.val.A, 0).res # "Ok" THEN 0
    ELSE IF ArgConv(last'.val.B, 1).res # "Ok" THEN 1
    ELSE IF last'.val.Rest.multi = "T" /\ ArgConv(last'.val.Rest.T, 2).res # "Ok" THEN 2
    ELSE IF RestFailed THEN 2
    ELSE 3

\* The step reported the failure of element k as a BadArgument at i + k
\* that carries the function name and the failure, after k + 1 conversions.
ReportedAt(k, cause) ==
    /\ last'.res = "BadArgument"
    /\ last'.val.r.pos = last'.val.i + k
    /\ last'.val.r.to = last'.val.to
    /\ last'.val.r.cause = cause
    /\ last'.val.converted = k + 1

\* C21 as stated: a failure of the k-th element of a tuple of arguments,
\* whatever the element is, is reported as BadArgument at position i + k.
C21_Original ==
    [][ (last'.op = "tuple_from_lua_multi_args" /\ FirstFailing < 3) =>
            /\ last'.res = "BadArgument"
            /\ last'.val.r.pos = last'.val.i + FirstFailing
      ]_vars

\* C21: a failure of the k-th element of a tuple of arguments converted from
\* position i is reported as BadArgument with position i + k, the function
\* name and the failure as its cause when the element is a single value; the
\* elements before it converted and none after it is converted. A failure in
\* a multi-valued last element (Variadic) is returned as it is, unwrapped.
C21_ArgumentPosition ==
    [][ last'.op = "tuple_from_lua_multi_args" =>
            LET k == FirstFailing
                L == into_vec(Before)
                T == CASE k = 0 -> last'.val.A
                       [] k = 1 -> last'.val.B
                       [] OTHER -> last'.val.Rest.T
            IN  IF k = 3 THEN last'.res = "Ok" /\ last'.val.converted = 3
                ELSE IF k = 2 /\ last'.val.Rest.multi # "T"
                THEN /\ last'.val.r =
                            collect(last'.val.Rest.T, SubSeq(L, 3, Len(L)))
                     /\ last'.res # "BadArgument"
                ELSE ReportedAt(k, ArgConv(T, k))
      ]_vars

\* The second argument of f, converted from position 3, was refused at 4.
C21_Witness ==
    /\ last.op = "tuple_from_lua_multi_args"
    /\ last.res = "BadArgument"
    /\ last.val.i = 3
    /\ last.val.r.pos = 4
    /\ last.val.to = <<"f">>
    /\ last.val.r.to = <<"f">>
    /\ last.val.r.cause.res = "FromLuaConversionError"
    /\ last.val.converted = 2
    /\ last.val.len = 3

\* TupleSpec: a caller makes a list of a tuple, whose last element may be the
\* list of arguments it has received, and gives the list back.
TupleInit == PoolInit

TupleNext ==
    \/ Args
    \/ TupleIntoLuaMulti
    \/ ReturnToPool
    \/ DropList

TupleSpec == TupleInit /\ [][TupleNext]_vars

\* C25: the list made of the tuple (a, b, last) is, front to back, the
\* conversion of a, the conversion of b, then the elements of the list of
\* last in their own order; its length is 2 plus the length of that list.
C25_TupleToGuest ==
    [][ (last'.op = "tuple_into_lua_multi" /\ last'.res = "Ok") =>
            /\ into_vec(After) =
                  <<last'.val.ca.out[1], last'.val.cb.out[1]>> \o last'.val.list
            /\ iter(After) = into_vec(After)
            /\ Len(After.v) = 2 + Len(last'.val.list)
      ]_vars

\* (true, 1, Variadic [0, 1]) became the list true, 1, 0, 1.
C25_Witness ==
    /\ last.op = "tuple_into_lua_multi"
    /\ last.res = "Ok"
    /\ last.val.kind = "Variadic"
    /\ into_vec(held[last.f][1]) = <<Boolean(TRUE), Integer(1), Integer(0), Integer(1)>>

\* C26: into_lua of a host integer never fails: it is the guest Integer of
\* the same value when the value is in the range of the guest integer, and a
\* guest Number otherwise, for every host integer type.
C26_IntToGuest ==
    (last.op = "into_lua" /\ last.f \in HostInts) =>
        /\ last.res = "Ok"
        /\ IF IntegerMin <= last.val.in /\ last.val.in <= IntegerMax
           THEN last.val.out = <<Integer(last.val.in)>>
           ELSE last.val.out[1].t = "Number"

\* The least value of the widest signed type became a Number.
C26_Witness ==
    /\ last.op = "into_lua"
    /\ last.f = "i128"
    /\ last.val.in = MinOf("i128")
    /\ last.val.in < IntegerMin
    /\ last.res = "Ok"
    /\ last.val.out[1].t = "Number"

----------------------------------------------------------------------------
\* The conversions of sets.
\*
\* SetSpec: a host set of integers is converted to a guest table, a guest
\* table to a host set, and the table into_lua made is converted back.

\* The greatest key of the tables of the model.
MaxKey == 3

\* A guest table: map maps each key that has a value to the value. The keys
\* of the model are guest integers, written as their numbers.
TableOf(tbl) == [t |-> "Table", map |-> tbl]

\* Table::len: a border of the table, 0 or a key n that has a value while
\* n + 1 has none. The guest may answer with any border.
Borders(tbl) ==
    {n \in {0} \cup DOMAIN tbl : (n = 0 \/ n >= 1) /\ (n + 1) \notin DOMAIN tbl}

\* Table::sequence_values: the values at 1, 2, ... up to the first key that
\* has none.
RECURSIVE sequence_from(_, _)
sequence_from(tbl, i) ==
    IF i \in DOMAIN tbl THEN <<tbl[i]>> \o sequence_from(tbl, i + 1) ELSE <<>>
sequence_values(tbl) == sequence_from(tbl, 1)

\* Table::pairs: every key with its value, in an order the guest chooses.
pairs(tbl) == {<<Integer(k), tbl[k]>> : k \in DOMAIN tbl}

\* Lua::create_table_from: the table of the pairs, or the error of the guest
\* allocator.
create_table_from(ps) ==
    {Ok(TableOf([n \in {q[1].n : q \in ps} |-> (CHOOSE q \in ps : q[1].n = n)[2]])),
     Err("MemoryError", "")}

\* The elements of a sequence, as a set.
Range(v) == {v[k] : k \in 1..Len(v)}

\* A from_lua that reads the keys of every table.
from_lua_set_keys(T, value) ==
    IF value.t # "Table" THEN {Err("FromLuaConversionError", "expected table")}
    ELSE LET rs == {from_lua(T, q[1]) : q \in pairs(value.map)}
             failed == {r \in rs : r.res # "Ok"}
         IN  IF failed # {} THEN failed ELSE {Ok({r.out[1] : r \in rs})}

\* FromLua for HashSet<T> and BTreeSet<T>, the possible results: a table
\* whose len is not 0 gives sequence_values collected, any other table the
\* keys of its pairs; the first conversion that fails is the result.
from_lua_set(T, value) ==
    IF value.t # "Table" THEN {Err("FromLuaConversionError", "expected table")}
    ELSE UNION {
           IF len > 0
           THEN LET r == collect(T, sequence_values(value.map))
                IN  {IF r.res # "Ok" THEN r ELSE Ok(Range(r.out[1]))}
           ELSE LET rs == {from_lua(T, q[1]) : q \in pairs(value.map)}
                    failed == {r \in rs : r.res # "Ok"}
                IN  IF failed # {} THEN failed ELSE {Ok({r.out[1] : r \in rs})}
           : len \in Borders(value.map)}

\* IntoLua for HashSet<T> and BTreeSet<T>, the possible results: the table
\* of the pairs (val, true).
into_lua_set(T, S) ==
    LET ks == {into_lua(T, x) : x \in S}
        failed == {r \in ks : r.res # "Ok"}
    IN  IF failed # {} THEN failed
        ELSE create_table_from({<<r.out[1], Boolean(TRUE)>> : r \in ks})

\* The element types of the sets, the members of the host sets, and the
\* values of the guest tables.
SetTypes == {"i32", "i64"}
SetElems(T) == {x \in (0 - 1)..MaxKey : MinOf(T) <= x /\ x <= MaxOf(T)}
TableVals == {Boolean(TRUE), Integer(5), Integer(6), Integer(7)}
Tables == UNION {[K -> TableVals] : K \in SUBSET (0..MaxKey)}

SetInit ==
    /\ \E T \in SetTypes :
          \/ \E S \in SUBSET SetElems(T) : last = ConvLast("host", T, S, Err("none", ""))
          \/ \E tbl \in Tables : last = ConvLast("guest", T, TableOf(tbl), Err("none", ""))
    /\ pool = <<>>
    /\ held = [c \in Callers |-> <<>>]
    /\ obtained = MultiValue_new
    /\ plan = <<>>
    /\ objs = <<>>
    /\ destructors = <<>>
    /\ to_drop = <<>>
    /\ scope = "alive"
    /\ stack = <<>>
    /\ tguard = FALSE

SetIntoLua ==
    /\ last.op = "host"
    /\ \E r \in into_lua_set(last.f, last.val.in) :
          last' = ConvLast("into_lua", last.f, last.val.in, r)
    /\ ConvFrame

SetFromLua ==
    /\ last.op = "guest"
    /\ \E r \in from_lua_set(last.f, last.val.in) :
          last' = ConvLast("from_lua", last.f, last.val.in, r)
    /\ ConvFrame

\* from_lua of the table into_lua has just returned.
SetFromLuaBack ==
    /\ last.op = "into_lua"
    /\ last.res = "Ok"
    /\ \E r \in from_lua_set(last.f, last.val.out[1]) :
          last' = ConvLast("round_trip", last.f, last.val.in, r)
    /\ ConvFrame

SetNext ==
    \/ SetIntoLua
    \/ SetFromLua
    \/ SetFromLuaBack

SetSpec == SetInit /\ [][SetNext]_vars

\* The result of the last conversion.
LastResult == [res |-> last.res, out |-> last.val.out, message |-> last.val.message]

\* What collecting the values of the sequence part of tbl into a set of T
\* gives, and what collecting the keys of tbl gives.
ByValues(T, tbl) ==
    LET vs == sequence_values(tbl)
        bad == {k \in 1..Len(vs) : from_lua(T, vs[k]).res # "Ok"}
    IN  IF bad = {} THEN Ok({from_lua(T, vs[k]).out[1] : k \in 1..Len(vs)})
        ELSE from_lua(T, vs[CHOOSE k \in bad : \A j \in bad : k <= j])
ByKeys(T, tbl) ==
    IF \A k \in DOMAIN tbl : MinOf(T) <= k /\ k <= MaxOf(T)
    THEN Ok(DOMAIN tbl)
    ELSE Err("FromLuaConversionError", "out of range")

C30_SetRoundTrip ==
    last.op = "round_trip" =>
        /\ last.res = "Ok"
        /\ last.val.out = <<last.val.in>>

====
